---- MODULE Spec2Model ----
(***************************************************************************)
(* Model of the idempotent processing-claim state machine of pr-reviewer   *)
(* (src/main.py): the Pub/Sub entry point review_pr_pubsub, the marker     *)
(* functions check_and_claim_processing, update_marker_completed,          *)
(* update_marker_for_retry and update_marker_failed, the pipeline          *)
(* process_pr_review, and the marker deletion of process_dead_letter_queue.*)
(*                                                                         *)
(* Every call to an external collaborator (Cloud Storage, Azure DevOps,    *)
(* Gemini) is one atomic step of an invocation; invocations running on     *)
(* different instances interleave between those steps.  Timestamps and the *)
(* text of error messages are left out of the markers: no branch of the    *)
(* code reads them.                                                        *)
(***************************************************************************)
EXTENDS Integers, FiniteSets, Sequences, TLC

(***************************************************************************)
(* Bounds of the model.                                                    *)
(***************************************************************************)
NumInstances == 2        \* function instances that can run at the same time
MaxDeliveries == 3       \* deliveries made by the transport in one behaviour
MaxDeletes == 1          \* marker deletions made by reconciliation runs
MaxSeqDeliveries == 5    \* deliveries in the one-at-a-time specification
MaxRetryDeliveries == 4  \* deliveries in the specification of concurrent retries
MaxCheckDeliveries == 2  \* deliveries in the specification with stored markers
MaxDlq == 3              \* messages in the dead-letter queue
MaxText == 4             \* symbols in a review text

(***************************************************************************)
(* Program constants.                                                      *)
(***************************************************************************)
MAX_RETRY_ATTEMPTS == 3

non_retryable_codes == {401, 403, 404}

(***************************************************************************)
(* Values.                                                                 *)
(***************************************************************************)
Instances == 1..NumInstances

None == ""               \* Python None / a missing or empty string field

PrIds == {1}
Shas == {"commit_a", "commit_b"}
\* Variant of MarkerBlob that names the blob after the PR alone.
MarkerBlob_PrOnly(pr_id, sha) == "idempotency/pr-" \o ToString(pr_id) \o ".json"

\* The blob name of a marker: f"idempotency/pr-{pr_id}-{commit_sha}.json".
MarkerBlob(pr_id, sha) ==
    "idempotency/pr-" \o ToString(pr_id) \o "-" \o sha \o ".json"

\* The markers of the model's work items, by blob name.
WorkKeys == {MarkerBlob(p, s) : p \in PrIds, s \in Shas}

\* Decoded queue messages.  pr_id 0 stands for a message whose pr_id is
\* missing or falsy; commit_sha None for a message without commit_sha.
Messages == [pr_id : PrIds \cup {0}, commit_sha : Shas \cup {None}]

\* Outcome of one call to a collaborator.
Ok == [kind |-> "ok", status_code |-> 200]
HTTPError(code) == [kind |-> "HTTPError", status_code |-> code]
OtherError == [kind |-> "Exception", status_code |-> 0]

WorkSourceOutcomes == {Ok, OtherError} \cup {HTTPError(c) : c \in {401, 403, 404, 500}}
CallOutcomes == {Ok, OtherError}

\* The review text, reduced to the two facts get_max_severity reads.
Reviews == [blocking : BOOLEAN, warning : BOOLEAN]

(***************************************************************************)
(* Environments: which outcomes the collaborators can produce, and how the *)
(* transport schedules deliveries.                                         *)
(***************************************************************************)
EnvFull ==
    [ws |-> {Ok, OtherError, HTTPError(404), HTTPError(500)},
     analyzer |-> CallOutcomes, archive |-> CallOutcomes, store |-> {Ok},
     diffs |-> {"empty", "files"}, commits |-> {"commit_a"},
     instances |-> Instances, serial |-> FALSE, max_deliveries |-> MaxDeliveries,
     messages |-> {m \in Messages : m.pr_id # 0 /\ m.commit_sha = "commit_a"}]

EnvHappy ==
    [ws |-> {Ok}, analyzer |-> {Ok}, archive |-> {Ok}, store |-> {Ok},
     diffs |-> {"empty", "files"}, commits |-> Shas,
     instances |-> Instances, serial |-> FALSE, max_deliveries |-> MaxDeliveries,
     messages |-> {m \in Messages : m.pr_id # 0}]

EnvSeq ==
    [ws |-> WorkSourceOutcomes, analyzer |-> CallOutcomes, archive |-> CallOutcomes,
     store |-> {Ok}, diffs |-> {"empty", "files"}, commits |-> {"commit_a", None},
     instances |-> {1}, serial |-> TRUE, max_deliveries |-> MaxSeqDeliveries,
     messages |-> {m \in Messages : m.commit_sha # "commit_b"}]

\* Concurrent deliveries of one message whose only failures are retryable
\* Work Source errors.
EnvRetry ==
    [ws |-> {Ok, HTTPError(500)}, analyzer |-> {Ok}, archive |-> {Ok}, store |-> {Ok},
     diffs |-> {"files"}, commits |-> {"commit_a"},
     instances |-> Instances, serial |-> FALSE, max_deliveries |-> MaxRetryDeliveries,
     messages |-> {[pr_id |-> 1, commit_sha |-> "commit_a"]}]

\* One delivery at a time over a bucket that already holds a marker.
EnvCheck ==
    [ws |-> WorkSourceOutcomes, analyzer |-> CallOutcomes, archive |-> CallOutcomes,
     store |-> {Ok}, diffs |-> {"empty", "files"}, commits |-> {"commit_a"},
     instances |-> {1}, serial |-> TRUE, max_deliveries |-> MaxCheckDeliveries,
     messages |-> {[pr_id |-> 1, commit_sha |-> "commit_a"]}]

\* One delivery at a time; the only failures are Work Source answers 401,
\* 403 and 404.
EnvDenied ==
    [ws |-> {Ok, HTTPError(401), HTTPError(403), HTTPError(404)},
     analyzer |-> {Ok}, archive |-> {Ok}, store |-> {Ok},
     diffs |-> {"empty", "files"}, commits |-> {"commit_a"},
     instances |-> {1}, serial |-> TRUE, max_deliveries |-> MaxCheckDeliveries,
     messages |-> {m \in Messages : m.pr_id # 0 /\ m.commit_sha # "commit_b"}]

\* One delivery at a time; every failure is retryable (Work Source HTTP 500
\* or timeout, Analyzer or archive error).
EnvTransient ==
    [ws |-> {Ok, OtherError, HTTPError(500)}, analyzer |-> CallOutcomes,
     archive |-> CallOutcomes, store |-> {Ok},
     diffs |-> {"empty", "files"}, commits |-> {"commit_a"},
     instances |-> {1}, serial |-> TRUE, max_deliveries |-> MaxRetryDeliveries,
     messages |-> {m \in Messages : m.pr_id # 0 /\ m.commit_sha # "commit_b"}]

\* One delivery at a time on either instance; retryable Work Source errors;
\* an instance can stop in the middle of an invocation.
EnvCrash ==
    [ws |-> {Ok, HTTPError(500)}, analyzer |-> {Ok}, archive |-> {Ok}, store |-> {Ok},
     diffs |-> {"files"}, commits |-> {"commit_a"},
     instances |-> Instances, serial |-> TRUE, max_deliveries |-> MaxRetryDeliveries,
     messages |-> {[pr_id |-> 1, commit_sha |-> "commit_a"]}]

\* One delivery at a time; every call to the marker store can fail with an
\* error that is neither not-found nor precondition-failed.
EnvStore ==
    [ws |-> {Ok, HTTPError(500)}, analyzer |-> {Ok}, archive |-> {Ok},
     store |-> {Ok, OtherError},
     diffs |-> {"empty", "files"}, commits |-> {"commit_a"},
     instances |-> {1}, serial |-> TRUE, max_deliveries |-> MaxCheckDeliveries,
     messages |-> {[pr_id |-> 1, commit_sha |-> "commit_a"]}]

\* One delivery at a time of a message as the transport hands it over
\* (base64 text); every collaborator succeeds.
EnvRaw ==
    [ws |-> {Ok}, analyzer |-> {Ok}, archive |-> {Ok}, store |-> {Ok},
     diffs |-> {"empty", "files"}, commits |-> {"commit_a"},
     instances |-> {1}, serial |-> TRUE, max_deliveries |-> MaxCheckDeliveries,
     messages |-> {[pr_id |-> 1, commit_sha |-> "commit_a"]}]

\* One delivery at a time of messages for two commits of one PR.
EnvTwo ==
    [ws |-> {Ok, HTTPError(404), HTTPError(500)}, analyzer |-> {Ok}, archive |-> {Ok},
     store |-> {Ok}, diffs |-> {"empty", "files"}, commits |-> Shas,
     instances |-> {1}, serial |-> TRUE, max_deliveries |-> MaxDeliveries,
     messages |-> {m \in Messages : m.pr_id # 0 /\ m.commit_sha # None}]

\* One delivery at a time, with reconciliation runs that republish a
\* dead-letter message; publish: outcomes of the publish to the main topic.
EnvRecon ==
    [ws |-> {Ok, HTTPError(404), HTTPError(500)}, analyzer |-> {Ok}, archive |-> {Ok},
     store |-> {Ok}, diffs |-> {"files"}, commits |-> {"commit_a"},
     instances |-> {1}, serial |-> TRUE, max_deliveries |-> MaxSeqDeliveries,
     messages |-> {m \in Messages : m.pr_id # 0 /\ m.commit_sha # "commit_b"},
     publish |-> CallOutcomes]

\* A failure of the HTTP transport (requests.RequestException other than
\* HTTPError: connection error, timeout).
RequestError == [kind |-> "RequestException", status_code |-> 0]

\* A run of process_dead_letter_queue in which every collaborator can fail.
EnvDlq ==
    [ws |-> {Ok, HTTPError(401), RequestError, OtherError},
     store |-> CallOutcomes, publish |-> CallOutcomes,
     pull |-> CallOutcomes, ack |-> CallOutcomes,
     max_messages |-> {0, 1, MaxDlq}]

\* call_gemini returns response.text, which is None when the answer holds no
\* text.
NoText == [kind |-> "ok_none", status_code |-> 200]

\* A request to review_pr in which every collaborator can fail.
EnvSync ==
    [ws |-> {Ok, HTTPError(404), HTTPError(500), RequestError},
     analyzer |-> {Ok, NoText, OtherError},
     archive |-> CallOutcomes]

\* One message, published once and redelivered as long as its delivery
\* raises; one delivery at a time; every failure is retryable; the store
\* is reliable.
EnvLive ==
    [ws |-> {Ok, OtherError, HTTPError(500)}, analyzer |-> CallOutcomes,
     archive |-> CallOutcomes, store |-> {Ok},
     diffs |-> {"empty", "files"}, commits |-> {"commit_a"},
     instances |-> {1}, serial |-> TRUE, max_deliveries |-> 1,
     messages |-> {m \in Messages : m.pr_id # 0 /\ m.commit_sha # "commit_b"}]

\* A request to receive_webhook whose publish can fail.
EnvHook == [publish |-> CallOutcomes]

(***************************************************************************)
(* Markers: JSON objects, modelled as records that have exactly the keys   *)
(* the code writes (timestamps and message texts left out).                *)
(***************************************************************************)
\* dict.get(key, default)
Get(m, key, default) == IF key \in DOMAIN m THEN m[key] ELSE default

\* check_and_claim_processing, the marker of a fresh claim
ClaimMarker(pr_id, sha) ==
    [pr_id |-> pr_id, commit_sha |-> sha, status |-> "processing", retry_count |-> 0]

\* Variant of CompletedMarker that records a comment only for a rejection.
CompletedMarker_RejectOnly(pr_id, sha, max_severity, commented) ==
    [pr_id |-> pr_id, commit_sha |-> sha, status |-> "completed",
     max_severity |-> max_severity, commented |-> (max_severity = "blocking")]

\* update_marker_completed
CompletedMarker(pr_id, sha, max_severity, commented) ==
    [pr_id |-> pr_id, commit_sha |-> sha, status |-> "completed",
     max_severity |-> max_severity, commented |-> commented]

\* update_marker_for_retry, retry_count >= MAX_RETRY_ATTEMPTS
ExhaustedMarker(pr_id, sha, retry_count) ==
    [pr_id |-> pr_id, commit_sha |-> sha, status |-> "failed",
     retry_count |-> retry_count, last_error |-> "error_msg"]

\* Variant of RetryMarker that does not record the error.
RetryMarker_NoError(pr_id, sha, retry_count) ==
    [pr_id |-> pr_id, commit_sha |-> sha, status |-> "processing",
     retry_count |-> retry_count]

\* update_marker_for_retry, retry_count < MAX_RETRY_ATTEMPTS
RetryMarker(pr_id, sha, retry_count) ==
    [pr_id |-> pr_id, commit_sha |-> sha, status |-> "processing",
     retry_count |-> retry_count, last_error |-> "error_msg"]

\* Variant of FailedMarker that gives the exhaustion of retries as the reason.
FailedMarker_Exhausted(pr_id, sha) ==
    [pr_id |-> pr_id, commit_sha |-> sha, status |-> "failed",
     error |-> "error_msg", reason |-> "max_retries_exceeded"]

\* update_marker_failed
FailedMarker(pr_id, sha) ==
    [pr_id |-> pr_id, commit_sha |-> sha, status |-> "failed",
     error |-> "error_msg", reason |-> "non_retryable_error"]

\* A blob whose content is not valid JSON.
CorruptMarker == [raw |-> "not json"]

\* Markers a bucket can hold when an invocation starts: those the marker
\* functions write, and those the unit tests of src/test_main.py store
\* (status alone, or status processing with any retry_count up to one
\* above the ceiling).
StoredMarkers(pr_id, sha) ==
    {[pr_id |-> pr_id, commit_sha |-> sha, status |-> st] :
        st \in {"processing", "completed", "failed"}}
    \cup {[pr_id |-> pr_id, commit_sha |-> sha, status |-> "processing", retry_count |-> r] :
        r \in 0..(MAX_RETRY_ATTEMPTS + 1)}
    \cup {ExhaustedMarker(pr_id, sha, MAX_RETRY_ATTEMPTS), FailedMarker(pr_id, sha),
           CorruptMarker}

\* The bucket is a function from the names of the existing blobs to their content.
Upload(bucket, name, content) ==
    [b \in DOMAIN bucket \cup {name} |-> IF b = name THEN content ELSE bucket[b]]

Delete(bucket, name) == [b \in DOMAIN bucket \ {name} |-> bucket[b]]

\* Variant of get_max_severity that looks for the warning token first.
get_max_severity_WarningFirst(review) ==
    IF review.warning THEN "warning"
    ELSE IF review.blocking THEN "blocking"
    ELSE "info"

\* get_max_severity
get_max_severity(review) ==
    IF review.blocking THEN "blocking"
    ELSE IF review.warning THEN "warning"
    ELSE "info"

(***************************************************************************)
(* State.                                                                  *)
(***************************************************************************)
VARIABLES
    markers,          \* the idempotency/ blobs of the bucket
    pc,               \* position of the invocation running on each instance
    msg,              \* the message the invocation was given
    loc,              \* local variables of the invocation
    delivered,        \* number of deliveries made so far
    deleted,          \* number of markers deleted by reconciliation so far
    analyzer_calls,   \* per WorkKey: calls of call_gemini
    comments,         \* per WorkKey: comments posted
    starts,           \* per WorkKey: process_pr_review started since the last deletion
    creates,          \* per WorkKey: conditional creates that succeeded since the last deletion
    late,             \* per instance: the delivery began when the marker was completed
    topic,            \* messages republished to the main topic, not yet delivered
    dlq,              \* the dead-letter queue and the run of process_dead_letter_queue
    sync,             \* the request being served by review_pr
    hook              \* the request being served by receive_webhook

vars == <<markers, pc, msg, loc, delivered, deleted,
          analyzer_calls, comments, starts, creates, late, topic, dlq, sync, hook>>

history == <<analyzer_calls, comments, starts, creates>>

Terminal == {"idle", "acked", "raised"}

\* No message: the instance is idle, or its last message was acknowledged.
NoMessage == [pr_id |-> 0, commit_sha |-> None]

\* Local variables of review_pr_pubsub before the try block.
InitLoc ==
    [commit_sha |-> None, retry_count |-> 0, max_severity |-> "info",
     commented |-> FALSE, action_taken |-> None, claimed |-> "no"]

Key(d) == MarkerBlob(msg[d].pr_id, loc[d].commit_sha)

\* The data of a dead-letter message: bytes that are not JSON text, a JSON
\* document that is not an object, or an object (pr_id 0: no pr_id member,
\* commit_sha None: no commit_sha member).
DlqBodies ==
    {[enc |-> "bad_json"], [enc |-> "json", value |-> [t |-> "array"]]}
    \cup {[enc |-> "json", value |-> [t |-> "object", pr_id |-> p, commit_sha |-> c]] :
             p \in {0, 1}, c \in {None, "commit_a"}}

\* Sequences over S of length at most n.
SeqUpTo(S, n) == UNION {[1..k -> S] : k \in 0..n}

\* No response yet.
NoResponse == [code |-> 0]

\* process_dead_letter_queue is not running; queue is the dead-letter queue.
\* A message is identified by its position in the queue.  ack_request is the
\* ack_ids of the acknowledge request once it is sent, acked the messages
\* the queue has dropped, credentials what the credential check found.
DlqIdle(queue) ==
    [pc |-> "idle", queue |-> queue, acked |-> {}, dry_run |-> FALSE,
     max_messages |-> 0, messages_pulled |-> 0, i |-> 0, ack_ids |-> {},
     details |-> <<>>, messages_republished |-> 0, messages_failed |-> 0,
     ack_request |-> {}, credentials |-> "unchecked", response |-> NoResponse]

\* review_pr is not running.  calls counts the calls of the request to each
\* collaborator function, failures is the set of calls that failed, posted,
\* rejected and archived count the effects on the PR and the archive.
SyncIdle ==
    [pc |-> "idle", pr_id |-> 0, pr |-> FALSE, changes |-> 0, file_diffs |-> <<>>,
     max_severity |-> None, commented |-> FALSE, action_taken |-> None,
     calls |-> [get_pull_request |-> 0, get_pr_diff |-> 0, get_file_content |-> 0,
                call_gemini |-> 0, save_to_storage |-> 0, post_pr_comment |-> 0,
                get_current_user_id |-> 0, reject_pr |-> 0],
     failures |-> {}, archived |-> 0, posted |-> 0, rejected |-> 0,
     response |-> NoResponse]

\* receive_webhook is not running.
HookIdle == [pc |-> "idle"]

\* Everything but the bucket, the dead-letter queue and the request to
\* review_pr.
InitRest ==
    /\ pc = [d \in Instances |-> "idle"]
    /\ msg = [d \in Instances |-> NoMessage]
    /\ loc = [d \in Instances |-> InitLoc]
    /\ delivered = 0
    /\ deleted = 0
    /\ analyzer_calls = [k \in WorkKeys |-> 0]
    /\ comments = [k \in WorkKeys |-> 0]
    /\ starts = [k \in WorkKeys |-> 0]
    /\ creates = [k \in WorkKeys |-> 0]
    /\ late = [d \in Instances |-> FALSE]
    /\ topic = {}
    /\ hook = HookIdle

Init ==
    /\ markers = <<>>
    /\ dlq = DlqIdle(<<>>)
    /\ sync = SyncIdle
    /\ InitRest

\* A dead-letter queue of at most MaxDlq messages, and a bucket that holds
\* no marker or one marker for PR 1 @ commit_a.
InitDlq ==
    /\ \E b \in {<<>>} \cup {Upload(<<>>, MarkerBlob(1, "commit_a"), m) :
                                m \in StoredMarkers(1, "commit_a")} : markers = b
    /\ \E q \in SeqUpTo(DlqBodies, MaxDlq) : dlq = DlqIdle(q)
    /\ sync = SyncIdle
    /\ InitRest

\* A request to review_pr arrives while the bucket holds no marker or one
\* marker for PR 1 @ commit_a.
InitSync ==
    /\ \E b \in {<<>>} \cup {Upload(<<>>, MarkerBlob(1, "commit_a"), m) :
                                m \in StoredMarkers(1, "commit_a")} : markers = b
    /\ dlq = DlqIdle(<<>>)
    /\ sync = SyncIdle
    /\ InitRest

\* The symbols of a review text: "S" is the text "**Severity:** ", "b" the
\* word blocking, "w" the word warning, "x" any other text.
BlockingToken == <<"S", "b">>
WarningToken == <<"S", "w">>
Texts == SeqUpTo({"S", "b", "w", "x"}, MaxText)

\* get_max_severity is about to be applied to a review text.
InitSeverity ==
    /\ markers = <<>>
    /\ dlq = DlqIdle(<<>>)
    /\ \E t \in Texts : sync = [pc |-> "get_max_severity", review |-> t]
    /\ InitRest

\* The bucket holds a marker for PR 1 @ commit_a.
InitCheck ==
    /\ \E m \in StoredMarkers(1, "commit_a") :
          markers = Upload(<<>>, MarkerBlob(1, "commit_a"), m)
    /\ dlq = DlqIdle(<<>>)
    /\ sync = SyncIdle
    /\ InitRest

(***************************************************************************)
(* review_pr_pubsub.                                                       *)
(***************************************************************************)
\* The two except clauses of review_pr_pubsub: where the invocation goes
\* after a call raised outcome o while commit_sha had the value sha.
Handler(o, sha) ==
    IF o.kind = "HTTPError" /\ o.status_code \in non_retryable_codes
    THEN IF sha # None THEN "update_marker_failed" ELSE "raised"
    ELSE IF sha # None THEN "retry_exists" ELSE "raised"

\* The invocation on instance d moves to position p; its locals become l.
\* An invocation that has returned or raised has no locals any more.
Goto(d, p, l) ==
    /\ pc' = [pc EXCEPT ![d] = p]
    /\ loc' = [loc EXCEPT ![d] = IF p \in Terminal THEN InitLoc ELSE l]
    /\ msg' = [msg EXCEPT ![d] = IF p = "acked" THEN NoMessage ELSE msg[d]]
    /\ late' = [late EXCEPT ![d] = IF p \in Terminal THEN FALSE ELSE late[d]]

\* The transport delivers message m to an idle instance; the invocation
\* parses it and returns at once when pr_id is missing.  In the one-at-a-time
\* schedule a republished message is delivered before any other message.
Deliver(d, m, E) ==
    /\ d \in E.instances
    /\ pc[d] \in Terminal
    /\ delivered < E.max_deliveries
    /\ E.serial => (topic = {} /\ \A e \in Instances : pc[e] \in Terminal)
    /\ m \in E.messages
    /\ delivered' = delivered + 1
    /\ msg' = [msg EXCEPT ![d] = IF m.pr_id = 0 THEN NoMessage ELSE m]
    /\ pc' = [pc EXCEPT ![d] = IF m.pr_id = 0 THEN "acked" ELSE "get_pull_request"]
    /\ loc' = [loc EXCEPT ![d] = InitLoc]
    /\ late' = [late EXCEPT ![d] =
                   /\ m.pr_id # 0
                   /\ m.commit_sha # None
                   /\ MarkerBlob(m.pr_id, m.commit_sha) \in DOMAIN markers
                   /\ Get(markers[MarkerBlob(m.pr_id, m.commit_sha)], "status", "unknown") = "completed"]
    /\ UNCHANGED <<markers, deleted, topic, dlq, sync, hook, history>>

(***************************************************************************)
(* The parsing of the Pub/Sub message at the start of review_pr_pubsub.    *)
(* The data field of the envelope is empty, or text that is not base64,    *)
(* or base64 of bytes that are not UTF-8, or of text that is not JSON, or  *)
(* of a JSON document.                                                     *)
(***************************************************************************)
\* Values of the pr_id member of a JSON object ("absent": no such member).
\* A float is written whole.frac; a string holds digits or not.
PrIdValues ==
    {[t |-> "absent"], [t |-> "null"], [t |-> "list"],
     [t |-> "int", v |-> 0], [t |-> "int", v |-> 1],
     [t |-> "str", digits |-> TRUE, v |-> 1], [t |-> "str", digits |-> FALSE, v |-> 0],
     [t |-> "float", whole |-> 1, frac |-> 5], [t |-> "float", whole |-> 1, frac |-> 0]}

JsonDocuments ==
    {[t |-> k] : k \in {"null", "array", "string", "number"}}
    \cup [t : {"object"}, pr_id : PrIdValues, commit_sha : {None, "commit_a"}]

RawMessages ==
    {[enc |-> e] : e \in {"empty", "bad_base64", "bad_utf8", "bad_json"}}
    \cup [enc : {"json"}, value : JsonDocuments]

\* Python truth value of a pr_id: "if not pr_id".
Truthy(p) ==
    CASE p.t \in {"absent", "null"} -> FALSE
      [] p.t = "int" -> p.v # 0
      [] p.t = "float" -> p.whole # 0 \/ p.frac # 0
      [] OTHER -> TRUE

\* The exception int(pr_id) raises, "none" when it returns.
IntError(p) ==
    CASE p.t = "list" -> "TypeError"
      [] p.t = "str" /\ ~p.digits -> "ValueError"
      [] OTHER -> "none"

\* int(pr_id): a float is truncated towards zero.
IntValue(p) == IF p.t = "float" THEN p.whole ELSE p.v

\* The exception raised inside the try block of the parsing, "none" when
\* the block returns or runs to its end.  binascii.Error, UnicodeDecodeError
\* and json.JSONDecodeError are subclasses of ValueError; a document that is
\* not an object has no method get.
ParseError(raw) ==
    CASE raw.enc = "empty" -> "none"
      [] raw.enc \in {"bad_base64", "bad_utf8", "bad_json"} -> "ValueError"
      [] raw.value.t # "object" -> "AttributeError"
      [] ~Truthy(raw.value.pr_id) -> "none"
      [] OTHER -> IntError(raw.value.pr_id)

\* except (ValueError, TypeError, json.JSONDecodeError)
ParseCaught == {"ValueError", "TypeError"}

\* Where the parsing leaves the invocation, and the message it has decoded.
ParseMessage(raw) ==
    IF ParseError(raw) \in ParseCaught THEN [outcome |-> "acked"]
    ELSE IF ParseError(raw) # "none" THEN [outcome |-> "raised"]
    ELSE IF raw.enc = "empty" \/ ~Truthy(raw.value.pr_id) THEN [outcome |-> "acked"]
    ELSE [outcome |-> "get_pull_request", pr_id |-> IntValue(raw.value.pr_id),
          commit_sha |-> raw.value.commit_sha]

\* The transport delivers the envelope raw to an idle instance.  The
\* invocation keeps the envelope with the decoded message.
DeliverRaw(d, raw, E) ==
    /\ d \in E.instances
    /\ pc[d] \in Terminal
    /\ delivered < E.max_deliveries
    /\ E.serial => \A e \in Instances : pc[e] \in Terminal
    /\ delivered' = delivered + 1
    /\ LET r == ParseMessage(raw)
       IN  /\ pc' = [pc EXCEPT ![d] = r.outcome]
           /\ msg' = [msg EXCEPT ![d] =
                         [pr_id |-> Get(r, "pr_id", 0),
                          commit_sha |-> Get(r, "commit_sha", None), raw |-> raw]]
    /\ loc' = [loc EXCEPT ![d] = InitLoc]
    /\ late' = [late EXCEPT ![d] = FALSE]
    /\ UNCHANGED <<markers, deleted, topic, dlq, sync, hook, history>>

\* ado.get_pull_request and the choice of commit_sha; c is the commitId of
\* lastMergeSourceCommit in the answer (None when the PR has none).
GetPullRequest(d, E) ==
    /\ pc[d] = "get_pull_request"
    /\ \E o \in E.ws, c \in (IF msg[d].commit_sha # None THEN {None} ELSE E.commits) :
          LET sha == IF msg[d].commit_sha # None THEN msg[d].commit_sha ELSE c
          IN  IF o # Ok THEN Goto(d, Handler(o, loc[d].commit_sha), loc[d])
              ELSE IF sha = None THEN Goto(d, "acked", loc[d])
              ELSE Goto(d, "claim_exists", [loc[d] EXCEPT !.commit_sha = sha])
    /\ UNCHANGED <<markers, delivered, deleted, topic, dlq, sync, hook, history>>

\* Variant of GetPrDiff that returns on an empty list of files without
\* updating the marker.
GetPrDiff_EmptyReturns(d, E) ==
    /\ pc[d] = "get_pr_diff"
    /\ \E o \in E.ws, files \in E.diffs :
          IF o # Ok
          THEN /\ Goto(d, Handler(o, loc[d].commit_sha), loc[d])
               /\ UNCHANGED starts
          ELSE IF files = "empty"
          THEN /\ Goto(d, "acked", loc[d])
               /\ UNCHANGED starts
          ELSE /\ Goto(d, "call_gemini", loc[d])
               /\ starts' = [starts EXCEPT ![Key(d)] = @ + 1]
    /\ UNCHANGED <<markers, delivered, deleted, topic, dlq, sync, hook, analyzer_calls, comments, creates>>

\* ado.get_pr_diff; an empty list of files goes straight to
\* update_marker_completed(..., "info", False).
GetPrDiff(d, E) ==
    /\ pc[d] = "get_pr_diff"
    /\ \E o \in E.ws, files \in E.diffs :
          IF o # Ok
          THEN /\ Goto(d, Handler(o, loc[d].commit_sha), loc[d])
               /\ UNCHANGED starts
          ELSE IF files = "empty"
          THEN /\ Goto(d, "update_marker_completed",
                       [loc[d] EXCEPT !.max_severity = "info", !.commented = FALSE])
               /\ UNCHANGED starts
          ELSE /\ Goto(d, "call_gemini", loc[d])
               /\ starts' = [starts EXCEPT ![Key(d)] = @ + 1]
    /\ UNCHANGED <<markers, delivered, deleted, topic, dlq, sync, hook, analyzer_calls, comments, creates>>

(***************************************************************************)
(* check_and_claim_processing.                                             *)
(***************************************************************************)
\* blob.exists()
ClaimExists(d, E) ==
    /\ pc[d] = "claim_exists"
    /\ \E b \in E.store :
          IF b # Ok THEN Goto(d, Handler(b, loc[d].commit_sha), loc[d])
          ELSE IF Key(d) \in DOMAIN markers THEN Goto(d, "claim_download", loc[d])
          ELSE Goto(d, "claim_create", loc[d])
    /\ UNCHANGED <<markers, delivered, deleted, topic, dlq, sync, hook, history>>

\* Variant of ClaimDecision that lets no delivery retry: a marker that is
\* processing belongs to the delivery that created it.
ClaimDecision_Exclusive(m) ==
    IF "raw" \in DOMAIN m THEN "create"
    ELSE IF Get(m, "status", "unknown") \in {"completed", "failed", "processing"}
    THEN "skip"
    ELSE "create"

\* Variant of ClaimDecision without the branch on status failed: a failed
\* marker is handled like one that is processing.
ClaimDecision_FailedRetries(m) ==
    IF "raw" \in DOMAIN m THEN "create"
    ELSE IF Get(m, "status", "unknown") = "completed" THEN "skip"
    ELSE IF Get(m, "status", "unknown") \in {"processing", "failed"}
    THEN IF Get(m, "retry_count", 0) >= MAX_RETRY_ATTEMPTS THEN "skip" ELSE "retry"
    ELSE "create"

\* Variant of ClaimDecision that compares with > instead of >=.
ClaimDecision_OffByOne(m) ==
    IF "raw" \in DOMAIN m THEN "create"
    ELSE IF Get(m, "status", "unknown") = "completed" THEN "skip"
    ELSE IF Get(m, "status", "unknown") = "failed" THEN "skip"
    ELSE IF Get(m, "status", "unknown") = "processing"
    THEN IF Get(m, "retry_count", 0) > MAX_RETRY_ATTEMPTS THEN "skip" ELSE "retry"
    ELSE "create"

\* What check_and_claim_processing does with the marker it has read:
\* "skip" (return False), "retry" (return True) or "create" (fall through
\* to the conditional create).
ClaimDecision(m) ==
    IF "raw" \in DOMAIN m THEN "create"
    ELSE IF Get(m, "status", "unknown") = "completed" THEN "skip"
    ELSE IF Get(m, "status", "unknown") = "failed" THEN "skip"
    ELSE IF Get(m, "status", "unknown") = "processing"
    THEN IF Get(m, "retry_count", 0) >= MAX_RETRY_ATTEMPTS THEN "skip" ELSE "retry"
    ELSE "create"

\* json.loads(blob.download_as_text()) and the branches on status.  A failed
\* download (the blob is gone, or the store fails) is caught by "except
\* Exception" and allows processing.
ClaimDownload(d, E) ==
    /\ pc[d] = "claim_download"
    /\ \E b \in E.store :
          IF b # Ok \/ Key(d) \notin DOMAIN markers
          THEN Goto(d, "get_pr_diff", [loc[d] EXCEPT !.claimed = "read_error"])
          ELSE LET decision == ClaimDecision(markers[Key(d)])
               IN  IF decision = "skip" THEN Goto(d, "acked", loc[d])
                   ELSE IF decision = "retry"
                   THEN Goto(d, "get_pr_diff", [loc[d] EXCEPT !.claimed = "retry"])
                   ELSE Goto(d, "claim_create", loc[d])
    /\ UNCHANGED <<markers, delivered, deleted, topic, dlq, sync, hook, history>>

\* Variant of GenerationMatch0: an upload without if_generation_match.
GenerationMatch0_Unconditional(bucket, name) == TRUE

\* The precondition of upload_from_string(..., if_generation_match=0).
GenerationMatch0(bucket, name) == name \notin DOMAIN bucket

\* blob.upload_from_string(marker, if_generation_match=0)
ClaimCreate(d, E) ==
    /\ pc[d] = "claim_create"
    /\ \E b \in E.store :
          IF b # Ok
          THEN /\ Goto(d, Handler(b, loc[d].commit_sha), loc[d])
               /\ UNCHANGED <<markers, creates>>
          ELSE IF GenerationMatch0(markers, Key(d))
          THEN /\ markers' = Upload(markers, Key(d), ClaimMarker(msg[d].pr_id, loc[d].commit_sha))
               /\ creates' = [creates EXCEPT ![Key(d)] = @ + 1]
               /\ Goto(d, "get_pr_diff", [loc[d] EXCEPT !.claimed = "created"])
          ELSE /\ Goto(d, "acked", loc[d])
               /\ UNCHANGED <<markers, creates>>
    /\ UNCHANGED <<delivered, deleted, topic, dlq, sync, hook, analyzer_calls, comments, starts>>

(***************************************************************************)
(* process_pr_review.                                                      *)
(***************************************************************************)
\* call_gemini and get_max_severity
CallGemini(d, E) ==
    /\ pc[d] = "call_gemini"
    /\ analyzer_calls' = [analyzer_calls EXCEPT ![Key(d)] = @ + 1]
    /\ \E o \in E.analyzer, review \in Reviews :
          IF o # Ok THEN Goto(d, Handler(o, loc[d].commit_sha), loc[d])
          ELSE Goto(d, "save_to_storage",
                    [loc[d] EXCEPT !.max_severity = get_max_severity(review)])
    /\ UNCHANGED <<markers, delivered, deleted, topic, dlq, sync, hook, comments, starts, creates>>

\* save_to_storage, then the branch on has_blocking or has_warning
SaveToStorage(d, E) ==
    /\ pc[d] = "save_to_storage"
    /\ \E o \in E.archive :
          IF o # Ok THEN Goto(d, Handler(o, loc[d].commit_sha), loc[d])
          ELSE IF loc[d].max_severity \in {"blocking", "warning"}
          THEN Goto(d, "post_pr_comment", loc[d])
          ELSE Goto(d, "update_marker_completed", loc[d])
    /\ UNCHANGED <<markers, delivered, deleted, topic, dlq, sync, hook, history>>

\* ado.post_pr_comment
PostPrComment(d, E) ==
    /\ pc[d] = "post_pr_comment"
    /\ \E o \in E.ws :
          IF o # Ok
          THEN /\ Goto(d, Handler(o, loc[d].commit_sha), loc[d])
               /\ UNCHANGED comments
          ELSE /\ comments' = [comments EXCEPT ![Key(d)] = @ + 1]
               /\ IF loc[d].max_severity = "blocking"
                  THEN Goto(d, "get_current_user_id", [loc[d] EXCEPT !.commented = TRUE])
                  ELSE Goto(d, "update_marker_completed",
                            [loc[d] EXCEPT !.commented = TRUE, !.action_taken = "commented"])
    /\ UNCHANGED <<markers, delivered, deleted, topic, dlq, sync, hook, analyzer_calls, starts, creates>>

\* ado.get_current_user_id
GetCurrentUserId(d, E) ==
    /\ pc[d] = "get_current_user_id"
    /\ \E o \in E.ws :
          IF o # Ok THEN Goto(d, Handler(o, loc[d].commit_sha), loc[d])
          ELSE Goto(d, "reject_pr", loc[d])
    /\ UNCHANGED <<markers, delivered, deleted, topic, dlq, sync, hook, history>>

\* ado.reject_pr
RejectPr(d, E) ==
    /\ pc[d] = "reject_pr"
    /\ \E o \in E.ws :
          IF o # Ok THEN Goto(d, Handler(o, loc[d].commit_sha), loc[d])
          ELSE Goto(d, "update_marker_completed", [loc[d] EXCEPT !.action_taken = "rejected"])
    /\ UNCHANGED <<markers, delivered, deleted, topic, dlq, sync, hook, history>>

(***************************************************************************)
(* update_marker_completed, update_marker_failed, update_marker_for_retry. *)
(***************************************************************************)
\* update_marker_completed, then review_pr_pubsub returns
UpdateMarkerCompleted(d, E) ==
    /\ pc[d] = "update_marker_completed"
    /\ \E b \in E.store :
          IF b # Ok
          THEN /\ Goto(d, Handler(b, loc[d].commit_sha), loc[d])
               /\ UNCHANGED markers
          ELSE /\ markers' = Upload(markers, Key(d),
                                    CompletedMarker(msg[d].pr_id, loc[d].commit_sha,
                                                    loc[d].max_severity, loc[d].commented))
               /\ Goto(d, "acked", loc[d])
    /\ UNCHANGED <<delivered, deleted, topic, dlq, sync, hook, history>>

\* update_marker_failed, then review_pr_pubsub re-raises
UpdateMarkerFailed(d, E) ==
    /\ pc[d] = "update_marker_failed"
    /\ \E b \in E.store :
          IF b # Ok THEN UNCHANGED markers
          ELSE markers' = Upload(markers, Key(d), FailedMarker(msg[d].pr_id, loc[d].commit_sha))
    /\ Goto(d, "raised", loc[d])
    /\ UNCHANGED <<delivered, deleted, topic, dlq, sync, hook, history>>

\* update_marker_for_retry: blob.exists()
RetryExists(d, E) ==
    /\ pc[d] = "retry_exists"
    /\ \E b \in E.store :
          IF b = Ok /\ Key(d) \in DOMAIN markers
          THEN Goto(d, "retry_download", loc[d])
          ELSE Goto(d, "retry_upload", [loc[d] EXCEPT !.retry_count = 0])
    /\ UNCHANGED <<markers, delivered, deleted, topic, dlq, sync, hook, history>>

\* Variant of StoredRetryCount that never finds the stored count.
StoredRetryCount_Forgets(m) == 0

\* The retry_count update_marker_for_retry takes from the marker it has read.
StoredRetryCount(m) ==
    IF "raw" \in DOMAIN m THEN 0 ELSE Get(m, "retry_count", 0)

\* update_marker_for_retry: json.loads(blob.download_as_text()); every
\* exception leaves retry_count at 0.
RetryDownload(d, E) ==
    /\ pc[d] = "retry_download"
    /\ \E b \in E.store :
          IF b = Ok /\ Key(d) \in DOMAIN markers
          THEN Goto(d, "retry_upload",
                    [loc[d] EXCEPT !.retry_count = StoredRetryCount(markers[Key(d)])])
          ELSE Goto(d, "retry_upload", [loc[d] EXCEPT !.retry_count = 0])
    /\ UNCHANGED <<markers, delivered, deleted, topic, dlq, sync, hook, history>>

\* Variant of MarkerForRetry that compares with > instead of >=.
MarkerForRetry_OffByOne(pr_id, sha, retry_count) ==
    IF retry_count > MAX_RETRY_ATTEMPTS
    THEN ExhaustedMarker(pr_id, sha, retry_count)
    ELSE RetryMarker(pr_id, sha, retry_count)

\* The marker update_marker_for_retry writes for the incremented count.
MarkerForRetry(pr_id, sha, retry_count) ==
    IF retry_count >= MAX_RETRY_ATTEMPTS
    THEN ExhaustedMarker(pr_id, sha, retry_count)
    ELSE RetryMarker(pr_id, sha, retry_count)

\* update_marker_for_retry: retry_count += 1 and the upload; review_pr_pubsub
\* returns when it answered False and re-raises when it answered True.
RetryUpload(d, E) ==
    /\ pc[d] = "retry_upload"
    /\ LET marker == MarkerForRetry(msg[d].pr_id, loc[d].commit_sha, loc[d].retry_count + 1)
       IN  \E b \in E.store :
              IF b # Ok
              THEN /\ UNCHANGED markers
                   /\ Goto(d, "raised", loc[d])
              ELSE /\ markers' = Upload(markers, Key(d), marker)
                   /\ Goto(d, IF marker.status = "failed" THEN "acked" ELSE "raised", loc[d])
    /\ UNCHANGED <<delivered, deleted, topic, dlq, sync, hook, history>>

(***************************************************************************)
(* The instance running an invocation stops (crash, timeout of the         *)
(* function) after check_and_claim_processing has returned True.  None of  *)
(* the except clauses of review_pr_pubsub runs, nothing is written, and    *)
(* the transport, which gets no acknowledgement, keeps the message.        *)
(***************************************************************************)
AfterClaim ==
    {"get_pr_diff", "call_gemini", "save_to_storage", "post_pr_comment",
     "get_current_user_id", "reject_pr", "update_marker_completed",
     "retry_exists", "retry_download", "retry_upload"}

Crash(d, E) ==
    /\ d \in E.instances
    /\ pc[d] \in AfterClaim
    /\ Goto(d, "raised", loc[d])
    /\ UNCHANGED <<markers, delivered, deleted, topic, dlq, sync, hook, history>>

(***************************************************************************)
(* process_dead_letter_queue: the reset of the marker of one message.      *)
(***************************************************************************)
ResetMarker(k) ==
    /\ deleted < MaxDeletes
    /\ k \in DOMAIN markers
    /\ markers' = Delete(markers, k)
    /\ deleted' = deleted + 1
    /\ starts' = [starts EXCEPT ![k] = 0]
    /\ creates' = [creates EXCEPT ![k] = 0]
    /\ late' = [d \in Instances |->
                   late[d] /\ MarkerBlob(msg[d].pr_id, msg[d].commit_sha) # k]
    /\ UNCHANGED <<pc, msg, loc, delivered, analyzer_calls, comments, topic, dlq, sync, hook>>

\* Whether the marker of the work item of dead-letter message m is failed;
\* a message without commit_sha is a message of the commit that the Work
\* Source names for its PR.
MarkerWasFailed(m, E) ==
    \E c \in (IF m.commit_sha # None THEN {m.commit_sha} ELSE E.commits \ {None}) :
        /\ MarkerBlob(m.pr_id, c) \in DOMAIN markers
        /\ Get(markers[MarkerBlob(m.pr_id, c)], "status", "unknown") = "failed"

\* process_dead_letter_queue, not a dry run, one pulled message m that has
\* pr_id: the marker is deleted when the message has commit_sha and the blob
\* exists, then the message is republished with source "dlq-reprocessing".
\* was_failed records for the properties what MarkerWasFailed said.
RepublishMessage(m, E) ==
    /\ m \in E.messages
    /\ m.pr_id # 0
    /\ topic = {}
    /\ \A e \in Instances : pc[e] \in Terminal
    /\ LET k == MarkerBlob(m.pr_id, m.commit_sha)
       IN  IF m.commit_sha # None /\ k \in DOMAIN markers
           THEN /\ deleted < MaxDeletes
                /\ markers' = Delete(markers, k)
                /\ deleted' = deleted + 1
                /\ starts' = [starts EXCEPT ![k] = 0]
                /\ creates' = [creates EXCEPT ![k] = 0]
           ELSE UNCHANGED <<markers, deleted, starts, creates>>
    /\ \E o \in E.publish :
          IF o # Ok THEN UNCHANGED topic
          ELSE topic' = {[pr_id |-> m.pr_id, commit_sha |-> m.commit_sha,
                          source |-> "dlq-reprocessing",
                          was_failed |-> MarkerWasFailed(m, E)]}
    /\ UNCHANGED <<pc, msg, loc, delivered, analyzer_calls, comments, late, dlq, sync, hook>>

\* The transport delivers a republished message for the first time.
DeliverRepublished(d, E) ==
    /\ d \in E.instances
    /\ pc[d] \in Terminal
    /\ delivered < E.max_deliveries
    /\ E.serial => \A e \in Instances : pc[e] \in Terminal
    /\ \E m \in topic :
          /\ topic' = topic \ {m}
          /\ msg' = [msg EXCEPT ![d] = m]
          /\ late' = [late EXCEPT ![d] =
                         /\ m.commit_sha # None
                         /\ MarkerBlob(m.pr_id, m.commit_sha) \in DOMAIN markers
                         /\ Get(markers[MarkerBlob(m.pr_id, m.commit_sha)], "status", "unknown") = "completed"]
    /\ delivered' = delivered + 1
    /\ pc' = [pc EXCEPT ![d] = "get_pull_request"]
    /\ loc' = [loc EXCEPT ![d] = InitLoc]
    /\ UNCHANGED <<markers, deleted, history, dlq, sync, hook>>

\* The transport delivers again the message whose delivery raised.
Redeliver(d, E) ==
    /\ d \in E.instances
    /\ pc[d] = "raised"
    /\ pc' = [pc EXCEPT ![d] = "get_pull_request"]
    /\ loc' = [loc EXCEPT ![d] = InitLoc]
    /\ late' = [late EXCEPT ![d] =
                   /\ msg[d].commit_sha # None
                   /\ MarkerBlob(msg[d].pr_id, msg[d].commit_sha) \in DOMAIN markers
                   /\ Get(markers[MarkerBlob(msg[d].pr_id, msg[d].commit_sha)],
                          "status", "unknown") = "completed"]
    /\ UNCHANGED <<markers, msg, delivered, deleted, topic, dlq, sync, hook, history>>

(***************************************************************************)
(* process_dead_letter_queue: one step per call to a collaborator.         *)
(***************************************************************************)
DlqOthers == <<pc, msg, loc, delivered, analyzer_calls, comments, late, sync, hook>>

\* make_response(body, code) ends the run.
DlqRespond(r, response) == [r EXCEPT !.pc = "done", !.response = response]

\* commit_sha[:8] if commit_sha else None
Short(commit_sha) ==
    IF commit_sha = None THEN None
    ELSE IF Len(commit_sha) <= 8 THEN commit_sha
    ELSE SubSeq(commit_sha, 1, 8)

\* The next message of the batch, or the acknowledgement after the last one.
DlqContinue(r) ==
    IF r.i < r.messages_pulled
    THEN [r EXCEPT !.pc = "loop", !.i = r.i + 1]
    ELSE [r EXCEPT !.pc = "acknowledge"]

\* Variant of DlqFailed that ends the batch at the failing message.
DlqFailed_Abort(r, pr_id) ==
    [r EXCEPT !.pc = "acknowledge",
              !.details = Append(r.details,
                                 [pr_id |-> pr_id, status |-> "failed", error |-> "str(e)"]),
              !.messages_failed = r.messages_failed + 1]

\* Variant of DlqFailed that puts the failing message on the ack list.
DlqFailed_Acked(r, pr_id) ==
    DlqContinue([r EXCEPT !.details = Append(r.details,
                                             [pr_id |-> pr_id, status |-> "failed",
                                              error |-> "str(e)"]),
                          !.messages_failed = r.messages_failed + 1,
                          !.ack_ids = r.ack_ids \cup {r.i}])

\* Variant of DlqFailed that lists the failing message without counting it.
DlqFailed_Uncounted(r, pr_id) ==
    DlqContinue([r EXCEPT !.details = Append(r.details,
                                             [pr_id |-> pr_id, status |-> "failed",
                                              error |-> "str(e)"])])

\* except Exception inside the loop: the message is listed as failed, and
\* the loop goes on.
DlqFailed(r, pr_id) ==
    DlqContinue([r EXCEPT !.details = Append(r.details,
                                             [pr_id |-> pr_id, status |-> "failed",
                                              error |-> "str(e)"]),
                          !.messages_failed = r.messages_failed + 1])

\* Variant of DlqRepublished that carries the PR alone.
DlqRepublished_NoCommit(body, i) ==
    [pr_id |-> body.value.pr_id, commit_sha |-> None,
     source |-> "dlq-reprocessing", original_message_id |-> i]

\* republish_message, without received_at.
DlqRepublished(body, i) ==
    [pr_id |-> body.value.pr_id, commit_sha |-> body.value.commit_sha,
     source |-> "dlq-reprocessing", original_message_id |-> i]

\* The request: configuration, API key and parameters.
DlqRequest(config_ok, key_ok, max_messages, dry_run) ==
    /\ dlq.pc = "idle"
    /\ dlq' = IF ~config_ok
              THEN DlqRespond(dlq, [code |-> 500, error |-> "Missing config"])
              ELSE IF ~key_ok
              THEN DlqRespond(dlq, [code |-> 401, error |-> "Invalid or missing API key"])
              ELSE IF max_messages < 1 \/ max_messages > 1000
              THEN DlqRespond(dlq, [code |-> 400,
                                    error |-> "max_messages must be between 1 and 1000"])
              ELSE [dlq EXCEPT !.pc = "validate_credentials",
                               !.max_messages = max_messages, !.dry_run = dry_run]
    /\ UNCHANGED <<markers, deleted, history, topic, DlqOthers>>

\* Variant of CredentialFailure that goes on to the pull.
CredentialFailure_Ignored(r, o) == [r EXCEPT !.pc = "pull"]

\* The handlers of the credential check; any other exception leaves the
\* function.  bool(e.response) is Response.ok.
CredentialFailure(r, o) ==
    IF o.kind = "HTTPError"
    THEN DlqRespond(r, [code |-> 401,
                        error |-> "Azure DevOps credentials validation failed",
                        status_code |-> IF o.status_code < 400 THEN o.status_code ELSE 500])
    ELSE IF o.kind = "RequestException"
    THEN DlqRespond(r, [code |-> 500, error |-> "Failed to validate credentials"])
    ELSE [r EXCEPT !.pc = "raised"]

\* ado.get_current_user_id()
DlqValidateCredentials(E) ==
    /\ dlq.pc = "validate_credentials"
    /\ \E o \in E.ws :
          dlq' = IF o = Ok
                 THEN [dlq EXCEPT !.pc = "pull", !.credentials = "valid"]
                 ELSE CredentialFailure([dlq EXCEPT !.credentials = "invalid"], o)
    /\ UNCHANGED <<markers, deleted, history, topic, DlqOthers>>

Min(a, b) == IF a <= b THEN a ELSE b

\* subscriber.pull: the first messages of the queue, at most max_messages.
DlqPull(E) ==
    /\ dlq.pc = "pull"
    /\ \E o \in E.pull :
          dlq' = IF o # Ok
                 THEN DlqRespond(dlq, [code |-> 500, error |-> "Failed to pull from DLQ"])
                 ELSE LET n == Min(dlq.max_messages, Len(dlq.queue))
                      IN  IF n = 0
                          THEN DlqRespond(dlq, [code |-> 200, status |-> "completed",
                                                messages_pulled |-> 0,
                                                messages_republished |-> 0,
                                                messages_failed |-> 0,
                                                dry_run |-> dlq.dry_run,
                                                message |-> "No messages found in DLQ"])
                          ELSE [dlq EXCEPT !.pc = "loop", !.messages_pulled = n, !.i = 1]
    /\ UNCHANGED <<markers, deleted, history, topic, DlqOthers>>

\* json.loads(data.decode("utf-8")) returned an object, so .get works.
Decodes(body) == body.enc = "json" /\ body.value.t = "object"

\* The start of one iteration: decode, then skip, dry run or go on to the
\* marker and the republish.  pr_id 0 in an entry of details is None.
DlqMessage ==
    /\ dlq.pc = "loop"
    /\ LET body == dlq.queue[dlq.i]
       IN  dlq' =
             IF ~Decodes(body) THEN DlqFailed(dlq, 0)
             ELSE IF body.value.pr_id = 0
             THEN DlqContinue([dlq EXCEPT
                      !.details = Append(dlq.details,
                                         [pr_id |-> 0, status |-> "skipped",
                                          reason |-> "missing pr_id"]),
                      !.messages_failed = dlq.messages_failed + 1,
                      !.ack_ids = dlq.ack_ids \cup {dlq.i}])
             ELSE IF dlq.dry_run
             THEN DlqContinue([dlq EXCEPT
                      !.details = Append(dlq.details,
                                         [pr_id |-> body.value.pr_id,
                                          commit_sha |-> Short(body.value.commit_sha),
                                          status |-> "dry_run",
                                          action |-> "would republish"]),
                      !.messages_republished = dlq.messages_republished + 1,
                      !.ack_ids = dlq.ack_ids \cup {dlq.i}])
             ELSE IF body.value.commit_sha # None
             THEN [dlq EXCEPT !.pc = "marker_exists"]
             ELSE [dlq EXCEPT !.pc = "publish"]
    /\ UNCHANGED <<markers, deleted, history, topic, DlqOthers>>

\* The marker of the message in hand.
DlqKey == MarkerBlob(dlq.queue[dlq.i].value.pr_id, dlq.queue[dlq.i].value.commit_sha)

\* marker_blob.exists()
DlqMarkerExists(E) ==
    /\ dlq.pc = "marker_exists"
    /\ \E o \in E.store :
          dlq' = IF o # Ok THEN DlqFailed(dlq, dlq.queue[dlq.i].value.pr_id)
                 ELSE IF DlqKey \in DOMAIN markers
                 THEN [dlq EXCEPT !.pc = "marker_delete"]
                 ELSE [dlq EXCEPT !.pc = "publish"]
    /\ UNCHANGED <<markers, deleted, history, topic, DlqOthers>>

\* marker_blob.delete()
DlqMarkerDelete(E) ==
    /\ dlq.pc = "marker_delete"
    /\ \E o \in E.store :
          IF o # Ok
          THEN /\ dlq' = DlqFailed(dlq, dlq.queue[dlq.i].value.pr_id)
               /\ UNCHANGED <<markers, deleted, starts, creates>>
          ELSE /\ dlq' = [dlq EXCEPT !.pc = "publish"]
               /\ markers' = Delete(markers, DlqKey)
               /\ deleted' = deleted + 1
               /\ starts' = [starts EXCEPT ![DlqKey] = 0]
               /\ creates' = [creates EXCEPT ![DlqKey] = 0]
    /\ UNCHANGED <<analyzer_calls, comments, topic, DlqOthers>>

\* publisher.publish and future.result(timeout=10)
DlqPublish(E) ==
    /\ dlq.pc = "publish"
    /\ LET body == dlq.queue[dlq.i]
       IN  \E o \in E.publish :
             IF o # Ok
             THEN /\ dlq' = DlqFailed(dlq, body.value.pr_id)
                  /\ UNCHANGED topic
             ELSE /\ topic' = topic \cup {DlqRepublished(body, dlq.i)}
                  /\ dlq' = DlqContinue([dlq EXCEPT
                        !.details = Append(dlq.details,
                                           [pr_id |-> body.value.pr_id,
                                            commit_sha |-> Short(body.value.commit_sha),
                                            status |-> "republished",
                                            new_message_id |-> "new_message_id"]),
                        !.messages_republished = dlq.messages_republished + 1,
                        !.ack_ids = dlq.ack_ids \cup {dlq.i}])
    /\ UNCHANGED <<markers, deleted, history, DlqOthers>>

\* Variant of ShouldAcknowledge that ignores dry_run.
ShouldAcknowledge_DryRun(r) == r.ack_ids # {}

\* if ack_ids and not dry_run
ShouldAcknowledge(r) == r.ack_ids # {} /\ ~r.dry_run

\* The response of a run that went through the batch.
DlqCompleted(r) ==
    DlqRespond(r, [code |-> 200, status |-> "completed",
                   messages_pulled |-> r.messages_pulled,
                   messages_republished |-> r.messages_republished,
                   messages_failed |-> r.messages_failed,
                   dry_run |-> r.dry_run, details |-> r.details])

\* subscriber.acknowledge, whose failure is only logged, and the response.
DlqAcknowledge(E) ==
    /\ dlq.pc = "acknowledge"
    /\ IF ShouldAcknowledge(dlq)
       THEN \E o \in E.ack :
               dlq' = DlqCompleted([dlq EXCEPT
                         !.ack_request = dlq.ack_ids,
                         !.acked = IF o = Ok THEN dlq.ack_ids ELSE dlq.acked])
       ELSE dlq' = DlqCompleted(dlq)
    /\ UNCHANGED <<markers, deleted, history, topic, DlqOthers>>

(***************************************************************************)
(* review_pr: one step per call to a collaborator.                         *)
(***************************************************************************)
NotSync ==
    <<markers, pc, msg, loc, delivered, deleted, analyzer_calls, comments, starts,
      creates, late, topic, dlq, hook>>

\* The body of a request: request.get_json(silent=True) is None, a list, or
\* an object.
SyncBodies ==
    {[t |-> "none"], [t |-> "array"]}
    \cup {[t |-> "object", pr_id |-> p] :
             p \in {[t |-> "absent"], [t |-> "list"], [t |-> "int", v |-> 1],
                    [t |-> "str", digits |-> TRUE, v |-> 1],
                    [t |-> "str", digits |-> FALSE, v |-> 0]}}

SyncRespond(r, response) == [r EXCEPT !.pc = "done", !.response = response]

\* One more call to the function f.
SyncCall(r, f) == [r EXCEPT !.calls[f] = @ + 1]

\* except requests.HTTPError / except Exception of review_pr
SyncHandler(o) ==
    IF o.kind = "HTTPError"
    THEN [code |-> 502, error |-> "Azure DevOps API error", status_code |-> o.status_code]
    ELSE [code |-> 500, error |-> "Internal error"]

\* Variant of SyncFail that takes back the comment and the archived review.
SyncFail_Rollback(r, f, o) ==
    SyncRespond([r EXCEPT !.failures = @ \cup {[step |-> f, kind |-> o.kind]},
                          !.posted = 0, !.archived = 0],
                SyncHandler(o))

\* The call f failed with o and the exception reached review_pr.
SyncFail(r, f, o) ==
    SyncRespond([r EXCEPT !.failures = @ \cup {[step |-> f, kind |-> o.kind]}],
                SyncHandler(o))

\* Configuration, API key and the parsing of the body.  A list has no
\* method get; the AttributeError is not caught.
SyncRequest(config_ok, key_ok, body) ==
    /\ sync.pc = "idle"
    /\ sync' =
         IF ~config_ok THEN SyncRespond(sync, [code |-> 500, error |-> "Missing config"])
         ELSE IF ~key_ok
         THEN SyncRespond(sync, [code |-> 401, error |-> "Invalid or missing API key"])
         ELSE IF body.t = "none"
         THEN SyncRespond(sync, [code |-> 400, error |-> "Request body must be JSON"])
         ELSE IF body.t # "object" THEN [sync EXCEPT !.pc = "raised"]
         ELSE IF ~Truthy(body.pr_id)
         THEN SyncRespond(sync, [code |-> 400, error |-> "Missing required field: pr_id"])
         ELSE IF IntError(body.pr_id) # "none"
         THEN SyncRespond(sync, [code |-> 400, error |-> "Invalid pr_id"])
         ELSE [sync EXCEPT !.pc = "get_pull_request", !.pr_id = IntValue(body.pr_id)]
    /\ UNCHANGED NotSync

\* ado.get_pull_request(pr_id)
SyncGetPullRequest(E) ==
    /\ sync.pc = "get_pull_request"
    /\ \E o \in E.ws :
          sync' = IF o # Ok
                  THEN SyncFail(SyncCall(sync, "get_pull_request"), "get_pull_request", o)
                  ELSE [SyncCall(sync, "get_pull_request") EXCEPT
                           !.pc = "get_pr_diff", !.pr = TRUE]
    /\ UNCHANGED NotSync

\* ado.get_pr_diff(pr_id) starts: it fetches the PR again for the two
\* commits.
SyncGetPrDiff(E) ==
    /\ sync.pc = "get_pr_diff"
    /\ \E o \in E.ws :
          sync' = IF o # Ok
                  THEN SyncFail(SyncCall(sync, "get_pr_diff"), "get_pr_diff", o)
                  ELSE [SyncCall(sync, "get_pr_diff") EXCEPT !.pc = "get_pr_iterations"]
    /\ UNCHANGED NotSync

\* "if not file_diffs": the response of a PR without file changes.
SyncNoChanges(r) ==
    SyncRespond(r, [code |-> 200, pr_id |-> r.pr_id,
                    message |-> "No file changes found in this PR",
                    has_blocking |-> FALSE, has_warning |-> FALSE,
                    action_taken |-> None, commented |-> FALSE])

\* get_pr_iterations: without iterations get_pr_changes returns [].
SyncGetPrIterations(E) ==
    /\ sync.pc = "get_pr_iterations"
    /\ \E o \in E.ws, iterations \in BOOLEAN :
          sync' = IF o # Ok THEN SyncFail(sync, "get_pr_diff", o)
                  ELSE IF ~iterations THEN SyncNoChanges(sync)
                  ELSE [sync EXCEPT !.pc = "get_pr_changes"]
    /\ UNCHANGED NotSync

\* The changes of the latest iteration: no file or one file.
SyncGetPrChanges(E) ==
    /\ sync.pc = "get_pr_changes"
    /\ \E o \in E.ws, n \in {0, 1} :
          sync' = IF o # Ok THEN SyncFail(sync, "get_pr_diff", o)
                  ELSE IF n = 0 THEN SyncNoChanges(sync)
                  ELSE [sync EXCEPT !.pc = "get_file_content", !.changes = n]
    /\ UNCHANGED NotSync

\* get_file_content: "except requests.HTTPError: return None"; any other
\* exception leaves get_pr_diff.
FileContent(r, o) ==
    IF o.kind = "HTTPError"
    THEN [r EXCEPT !.failures = @ \cup {[step |-> "get_file_content", kind |-> o.kind]},
                   !.file_diffs = Append(@, None)]
    ELSE SyncFail(r, "get_file_content", o)

\* Variant of ProcessPrReview that skips a WorkKey whose marker is completed
\* or failed, as the claim check of the queue path does.
ProcessPrReview_Claimed(r) ==
    IF \E k \in DOMAIN markers :
          Get(markers[k], "status", "unknown") \in {"completed", "failed"}
    THEN SyncNoChanges(r)
    ELSE [r EXCEPT !.pc = "call_gemini"]

\* review_pr hands the PR and its file diffs to process_pr_review.
ProcessPrReview(r) == [r EXCEPT !.pc = "call_gemini"]

\* The two calls of get_file_content for the changed file, source first;
\* file_diffs holds the contents fetched so far.
SyncGetFileContent(E) ==
    /\ sync.pc = "get_file_content"
    /\ \E o \in E.ws :
          LET r == IF o = Ok
                   THEN [SyncCall(sync, "get_file_content") EXCEPT
                            !.file_diffs = Append(@, "text")]
                   ELSE FileContent(SyncCall(sync, "get_file_content"), o)
          IN  sync' = IF r.pc = "get_file_content" /\ Len(r.file_diffs) = 2
                      THEN ProcessPrReview(r)
                      ELSE r
    /\ UNCHANGED NotSync

\* call_gemini and get_max_severity, which raises TypeError on None.
SyncCallGemini(E) ==
    /\ sync.pc = "call_gemini"
    /\ \E o \in E.analyzer, review \in Reviews :
          sync' = IF o = Ok
                  THEN [SyncCall(sync, "call_gemini") EXCEPT
                           !.pc = "save_to_storage",
                           !.max_severity = get_max_severity(review)]
                  ELSE IF o = NoText
                  THEN SyncFail(SyncCall(sync, "call_gemini"), "get_max_severity", OtherError)
                  ELSE SyncFail(SyncCall(sync, "call_gemini"), "call_gemini", o)
    /\ UNCHANGED NotSync

\* The response of a request whose pipeline run returned.
SyncCompleted(r) ==
    SyncRespond(r, [code |-> 200, pr_id |-> r.pr_id, files_changed |-> r.changes,
                    max_severity |-> r.max_severity,
                    has_blocking |-> r.max_severity = "blocking",
                    has_warning |-> r.max_severity = "warning",
                    action_taken |-> r.action_taken, commented |-> r.commented])

\* Variant of NeedsComment that comments on every review.
NeedsComment_Always(max_severity) == TRUE

\* if has_blocking or has_warning
NeedsComment(max_severity) == max_severity \in {"blocking", "warning"}

\* save_to_storage, then the branch on the severity
SyncSaveToStorage(E) ==
    /\ sync.pc = "save_to_storage"
    /\ \E o \in E.archive :
          sync' = IF o # Ok
                  THEN SyncFail(SyncCall(sync, "save_to_storage"), "save_to_storage", o)
                  ELSE LET r == [SyncCall(sync, "save_to_storage") EXCEPT
                                    !.archived = @ + 1]
                       IN  IF NeedsComment(r.max_severity)
                           THEN [r EXCEPT !.pc = "post_pr_comment"]
                           ELSE SyncCompleted(r)
    /\ UNCHANGED NotSync

\* ado.post_pr_comment
SyncPostPrComment(E) ==
    /\ sync.pc = "post_pr_comment"
    /\ \E o \in E.ws :
          sync' = IF o # Ok
                  THEN SyncFail(SyncCall(sync, "post_pr_comment"), "post_pr_comment", o)
                  ELSE LET r == [SyncCall(sync, "post_pr_comment") EXCEPT
                                    !.posted = @ + 1, !.commented = TRUE]
                       IN  IF r.max_severity = "blocking"
                           THEN [r EXCEPT !.pc = "get_current_user_id"]
                           ELSE SyncCompleted([r EXCEPT !.action_taken = "commented"])
    /\ UNCHANGED NotSync

\* ado.get_current_user_id
SyncGetCurrentUserId(E) ==
    /\ sync.pc = "get_current_user_id"
    /\ \E o \in E.ws :
          sync' = IF o # Ok
                  THEN SyncFail(SyncCall(sync, "get_current_user_id"),
                                "get_current_user_id", o)
                  ELSE [SyncCall(sync, "get_current_user_id") EXCEPT !.pc = "reject_pr"]
    /\ UNCHANGED NotSync

\* ado.reject_pr
SyncRejectPr(E) ==
    /\ sync.pc = "reject_pr"
    /\ \E o \in E.ws :
          sync' = IF o # Ok
                  THEN SyncFail(SyncCall(sync, "reject_pr"), "reject_pr", o)
                  ELSE SyncCompleted([SyncCall(sync, "reject_pr") EXCEPT
                                         !.rejected = @ + 1,
                                         !.action_taken = "rejected"])
    /\ UNCHANGED NotSync

(***************************************************************************)
(* get_max_severity applied to a review text.                              *)
(***************************************************************************)
\* token in text: the token is a run of consecutive symbols of the text.
IsIn(token, text) ==
    \E i \in 1..(Len(text) - Len(token) + 1) :
       SubSeq(text, i, i + Len(token) - 1) = token

\* The two facts get_max_severity reads from the text.
Facts(text) ==
    [blocking |-> IsIn(BlockingToken, text), warning |-> IsIn(WarningToken, text)]

Classify ==
    /\ sync.pc = "get_max_severity"
    /\ sync' = [pc |-> "classified", review |-> sync.review,
                max_severity |-> get_max_severity(Facts(sync.review))]
    /\ UNCHANGED NotSync

(***************************************************************************)
(* receive_webhook.                                                        *)
(***************************************************************************)
NotHook ==
    <<markers, pc, msg, loc, delivered, deleted, analyzer_calls, comments, starts,
      creates, late, dlq, sync>>

\* Values of the commit_sha member of the body ("absent": no such member).
ShaValues ==
    {[t |-> "absent"], [t |-> "list"], [t |-> "int", v |-> 1234567]}
    \cup {[t |-> "str", v |-> v] : v \in {"", "abc123", "abc1234", "commit_a"}}

\* The body of a request: not JSON, null, {}, a non-empty list, or an
\* object with members.
HookBodies ==
    {[t |-> k] : k \in {"bad_json", "null", "empty_object", "array"}}
    \cup [t : {"object"}, pr_id : PrIdValues, commit_sha : ShaValues]

\* The X-API-Key header compared with the configured key.
HookKeys == {"absent", "wrong", "right"}

\* Python truth value of a commit_sha: "if not commit_sha".
ShaTruthy(c) ==
    CASE c.t = "absent" -> FALSE
      [] c.t = "str" -> c.v # ""
      [] OTHER -> TRUE

\* isinstance(commit_sha, str) and len(commit_sha) >= 7
ShaValid(c) == c.t = "str" /\ Len(c.v) >= 7

\* The response of receive_webhook.
HookRespond(request, code, error) ==
    [pc |-> "done", request |-> request, response |-> [code |-> code, error |-> error]]

\* receive_webhook up to the publish: configuration, API key, body, required
\* fields and types.  A list has no method get; the AttributeError is not
\* caught.  message is the message built for the queue, without received_at.
Validate(request) ==
    LET body == request.body
    IN  IF ~request.config_ok
        THEN HookRespond(request, 500, "Server configuration error")
        ELSE IF request.key = "absent"
        THEN HookRespond(request, 401, "Missing X-API-Key header")
        ELSE IF request.key # "right" THEN HookRespond(request, 401, "Invalid API key")
        ELSE IF body.t = "bad_json" THEN HookRespond(request, 400, "Invalid JSON body")
        ELSE IF body.t \in {"null", "empty_object"}
        THEN HookRespond(request, 400, "Empty request body")
        ELSE IF body.t # "object" THEN [pc |-> "raised", request |-> request]
        ELSE IF ~Truthy(body.pr_id)
        THEN HookRespond(request, 400, "Missing required field: pr_id")
        ELSE IF ~ShaTruthy(body.commit_sha)
        THEN HookRespond(request, 400, "Missing required field: commit_sha")
        ELSE IF IntError(body.pr_id) # "none"
        THEN HookRespond(request, 400, "pr_id must be an integer")
        ELSE IF ~ShaValid(body.commit_sha)
        THEN HookRespond(request, 400, "commit_sha must be a string of at least 7 characters")
        ELSE [pc |-> "publish", request |-> request,
              message |-> [pr_id |-> IntValue(body.pr_id),
                           commit_sha |-> body.commit_sha.v,
                           source |-> "azure-devops-pipeline"]]

\* A request arrives and is validated.
HookRequest(config_ok, key, body) ==
    /\ hook.pc = "idle"
    /\ hook' = Validate([config_ok |-> config_ok, key |-> key, body |-> body])
    /\ UNCHANGED <<topic, NotHook>>

\* publisher.publish and future.result(timeout=30), then the response
HookPublish(E) ==
    /\ hook.pc = "publish"
    /\ \E o \in E.publish :
          IF o # Ok
          THEN /\ hook' = HookRespond(hook.request, 500, "Failed to queue message")
               /\ UNCHANGED topic
          ELSE /\ topic' = topic \cup {hook.message}
               /\ hook' = [pc |-> "done", request |-> hook.request,
                           response |-> [code |-> 202, status |-> "queued",
                                         message_id |-> "message_id",
                                         pr_id |-> hook.message.pr_id,
                                         commit_sha |-> Short(hook.message.commit_sha)]]
    /\ UNCHANGED NotHook

(***************************************************************************)
(* Specifications.                                                         *)
(***************************************************************************)
Step(d, E) ==
    \/ \E m \in Messages : Deliver(d, m, E)
    \/ GetPullRequest(d, E)
    \/ ClaimExists(d, E)
    \/ ClaimDownload(d, E)
    \/ ClaimCreate(d, E)
    \/ GetPrDiff(d, E)
    \/ CallGemini(d, E)
    \/ SaveToStorage(d, E)
    \/ PostPrComment(d, E)
    \/ GetCurrentUserId(d, E)
    \/ RejectPr(d, E)
    \/ UpdateMarkerCompleted(d, E)

Fail(d, E) ==
    \/ UpdateMarkerFailed(d, E)
    \/ RetryExists(d, E)
    \/ RetryDownload(d, E)
    \/ RetryUpload(d, E)

\* Concurrent deliveries, failing Work Source, Analyzer and archive,
\* reliable marker store, reconciliation.
Next ==
    \/ \E d \in Instances : Step(d, EnvFull) \/ Fail(d, EnvFull)
    \/ \E k \in WorkKeys : ResetMarker(k)

Spec == Init /\ [][Next]_vars

\* Concurrent deliveries, every collaborator succeeds, no reconciliation.
NextHappy == \E d \in Instances : Step(d, EnvHappy)

SpecHappy == Init /\ [][NextHappy]_vars

\* Deliveries handled one at a time.
NextSeq ==
    \/ \E d \in Instances : Step(d, EnvSeq) \/ Fail(d, EnvSeq)
    \/ \E k \in WorkKeys : ResetMarker(k)

SpecSeq == Init /\ [][NextSeq]_vars

\* Concurrent deliveries of one message, retryable Work Source errors.
NextRetry ==
    \E d \in Instances :
        \/ Step(d, EnvRetry)
        \/ RetryExists(d, EnvRetry)
        \/ RetryDownload(d, EnvRetry)
        \/ RetryUpload(d, EnvRetry)

SpecRetry == Init /\ [][NextRetry]_vars

\* Deliveries handled one at a time, starting with a stored marker.
NextCheck == \E d \in Instances : Step(d, EnvCheck) \/ Fail(d, EnvCheck)

SpecCheck == InitCheck /\ [][NextCheck]_vars

\* Deliveries handled one at a time, Work Source answers 401, 403, 404.
NextDenied == \E d \in Instances : Step(d, EnvDenied) \/ UpdateMarkerFailed(d, EnvDenied)

SpecDenied == Init /\ [][NextDenied]_vars

\* Deliveries handled one at a time, retryable failures only.
NextTransient ==
    \E d \in Instances :
        \/ Step(d, EnvTransient)
        \/ RetryExists(d, EnvTransient)
        \/ RetryDownload(d, EnvTransient)
        \/ RetryUpload(d, EnvTransient)

SpecTransient == Init /\ [][NextTransient]_vars

\* Deliveries handled one at a time, instances that can stop.
NextCrash ==
    \E d \in Instances :
        \/ Step(d, EnvCrash)
        \/ RetryExists(d, EnvCrash)
        \/ RetryDownload(d, EnvCrash)
        \/ RetryUpload(d, EnvCrash)
        \/ Crash(d, EnvCrash)

SpecCrash == Init /\ [][NextCrash]_vars

\* Deliveries handled one at a time, failing marker store.
NextStore ==
    \E d \in Instances :
        \/ Step(d, EnvStore)
        \/ RetryExists(d, EnvStore)
        \/ RetryDownload(d, EnvStore)
        \/ RetryUpload(d, EnvStore)

SpecStore == Init /\ [][NextStore]_vars

\* Deliveries of raw envelopes handled one at a time, every call succeeds.
NextRaw ==
    \E d \in Instances :
        \/ \E raw \in RawMessages : DeliverRaw(d, raw, EnvRaw)
        \/ Step(d, EnvRaw)

SpecRaw == Init /\ [][NextRaw]_vars

\* Deliveries for two commits of one PR, handled one at a time.
NextTwo ==
    \/ \E d \in Instances : Step(d, EnvTwo) \/ Fail(d, EnvTwo)
    \/ \E k \in WorkKeys : ResetMarker(k)

SpecTwo == Init /\ [][NextTwo]_vars

\* Deliveries handled one at a time and reconciliation runs.
NextRecon ==
    \/ \E d \in Instances : Step(d, EnvRecon) \/ Fail(d, EnvRecon)
    \/ \E d \in Instances : DeliverRepublished(d, EnvRecon)
    \/ \E m \in Messages : RepublishMessage(m, EnvRecon)

SpecRecon == Init /\ [][NextRecon]_vars

\* One run of process_dead_letter_queue over a dead-letter queue.
NextDlq ==
    \/ \E c, k, d \in BOOLEAN : \E n \in EnvDlq.max_messages : DlqRequest(c, k, n, d)
    \/ DlqValidateCredentials(EnvDlq)
    \/ DlqPull(EnvDlq)
    \/ DlqMessage
    \/ DlqMarkerExists(EnvDlq)
    \/ DlqMarkerDelete(EnvDlq)
    \/ DlqPublish(EnvDlq)
    \/ DlqAcknowledge(EnvDlq)

SpecDlq == InitDlq /\ [][NextDlq]_vars

\* One request to review_pr.
NextSync ==
    \/ \E c, k \in BOOLEAN : \E body \in SyncBodies : SyncRequest(c, k, body)
    \/ SyncGetPullRequest(EnvSync)
    \/ SyncGetPrDiff(EnvSync)
    \/ SyncGetPrIterations(EnvSync)
    \/ SyncGetPrChanges(EnvSync)
    \/ SyncGetFileContent(EnvSync)
    \/ SyncCallGemini(EnvSync)
    \/ SyncSaveToStorage(EnvSync)
    \/ SyncPostPrComment(EnvSync)
    \/ SyncGetCurrentUserId(EnvSync)
    \/ SyncRejectPr(EnvSync)

SpecSync == InitSync /\ [][NextSync]_vars

\* get_max_severity on every text of at most MaxText symbols.
NextSeverity == Classify

SpecSeverity == InitSeverity /\ [][NextSeverity]_vars

\* One message and its redeliveries, retryable failures.
NextLive ==
    \E d \in Instances :
        \/ Step(d, EnvLive)
        \/ RetryExists(d, EnvLive)
        \/ RetryDownload(d, EnvLive)
        \/ RetryUpload(d, EnvLive)
        \/ Redeliver(d, EnvLive)

\* No invocation stops before its end, and a message whose delivery raised
\* is delivered again.
SpecLive == Init /\ [][NextLive]_vars /\ WF_vars(NextLive)

\* One request to receive_webhook.
NextHook ==
    \/ \E c \in BOOLEAN, k \in HookKeys, body \in HookBodies : HookRequest(c, k, body)
    \/ HookPublish(EnvHook)

SpecHook == Init /\ [][NextHook]_vars

(***************************************************************************)
(* Properties.                                                             *)
(***************************************************************************)

\* C1: on the happy path (every Work Source, Analyzer and store call
\* succeeds), whatever the number and interleaving of deliveries of one
\* WorkKey, the Analyzer is invoked at most once for it and at most one
\* comment is posted.
C1_ExactlyOnce ==
    \A k \in WorkKeys : analyzer_calls[k] <= 1 /\ comments[k] <= 1

\* C2: a delivery that began when the marker of its WorkKey was completed
\* (and the marker has not been deleted since) never gets past the Analyzer
\* call: it is never at a position that follows call_gemini.
C2_Idempotence ==
    \A d \in Instances :
        late[d] => pc[d] \notin {"save_to_storage", "post_pr_comment",
                                 "get_current_user_id", "reject_pr"}

\* C3: within one marker lifetime at most one conditional create succeeds
\* for a WorkKey, and a delivery that attempts the create after another has
\* won gets False: it returns without running the pipeline and writes
\* nothing.
C3_OwnershipRace ==
    /\ [](\A k \in WorkKeys : creates[k] <= 1)
    /\ [][\A d \in Instances :
            (pc[d] = "claim_create" /\ pc'[d] # pc[d] /\ creates[Key(d)] >= 1)
                => (pc'[d] = "acked" /\ markers' = markers)]_vars

\* C3 witness: one delivery has won the create while another delivery of
\* the same WorkKey, which also found no marker, is about to attempt it.
C3_Witness ==
    \E d, e \in Instances :
        /\ d # e
        /\ loc[d].claimed = "created"
        /\ pc[e] = "claim_create"
        /\ Key(d) = Key(e)
        /\ creates[Key(d)] = 1

\* C4: with deliveries handled one at a time, process_pr_review is started
\* at most MAX_RETRY_ATTEMPTS times for a WorkKey between two deletions of
\* its marker.
C4_BoundedAttempts ==
    \A k \in WorkKeys : starts[k] <= MAX_RETRY_ATTEMPTS

\* C4 witness: the pipeline was started MAX_RETRY_ATTEMPTS times, the marker
\* is failed, and a further delivery has come and gone.
C4_Witness ==
    \E k \in DOMAIN markers :
        /\ starts[k] = MAX_RETRY_ATTEMPTS
        /\ Get(markers[k], "status", "unknown") = "failed"
        /\ delivered > MAX_RETRY_ATTEMPTS
        /\ \A d \in Instances : pc[d] \in Terminal

\* C5: the retry_count stored in a marker (0 when the field is missing)
\* never decreases from one write of the marker to the next.
C5_RetryCountMonotone ==
    [][\A k \in DOMAIN markers \cap DOMAIN markers' :
          Get(markers'[k], "retry_count", 0) >= Get(markers[k], "retry_count", 0)]_vars

\* C6: a marker set to failed by update_marker_for_retry (it carries
\* last_error) has retry_count not greater than MAX_RETRY_ATTEMPTS.
C6_ExhaustedWithinCeiling ==
    \A k \in DOMAIN markers :
        (Get(markers[k], "status", "unknown") = "failed" /\ "last_error" \in DOMAIN markers[k])
            => Get(markers[k], "retry_count", 0) <= MAX_RETRY_ATTEMPTS

\* C7 (Scenario A): the first delivery ever, finding no marker, creates the
\* marker as processing with retry_count 0; when every call succeeds and the
\* diff is not empty it has run the pipeline and the Analyzer exactly once
\* when it completes, it writes completed with its severity and comment
\* flag, and it returns normally.
C7_ScenarioA ==
    /\ [][\A d \in Instances :
            (delivered = 1 /\ deleted = 0 /\ pc[d] = "claim_create" /\ pc'[d] # pc[d])
                => /\ pc'[d] = "get_pr_diff"
                   /\ Key(d) \in DOMAIN markers'
                   /\ markers'[Key(d)].status = "processing"
                   /\ markers'[Key(d)].retry_count = 0]_vars
    /\ [][\A d \in Instances :
            (/\ delivered = 1 /\ deleted = 0
             /\ pc[d] = "update_marker_completed" /\ pc'[d] # pc[d]
             /\ analyzer_calls[Key(d)] > 0)
                => /\ loc[d].claimed = "created"
                   /\ starts[Key(d)] = 1
                   /\ analyzer_calls[Key(d)] = 1
                   /\ pc'[d] = "acked"
                   /\ markers'[Key(d)].status = "completed"
                   /\ markers'[Key(d)].max_severity = loc[d].max_severity
                   /\ markers'[Key(d)].commented = loc[d].commented]_vars

\* C7 witness: the first delivery has returned and left a completed marker
\* after one Analyzer call.
C7_Witness ==
    \E k \in DOMAIN markers :
        /\ delivered = 1 /\ deleted = 0
        /\ \A d \in Instances : pc[d] \in {"idle", "acked"}
        /\ analyzer_calls[k] = 1
        /\ Get(markers[k], "status", "unknown") = "completed"
        /\ markers[k].commented

\* C8 (Scenario B): when check_and_claim_processing reads a marker whose
\* status is completed or failed, the invocation returns normally at that
\* step: it writes nothing, and no Analyzer call, comment or pipeline start
\* is made.
C8_ScenarioB ==
    [][\A d \in Instances :
          (/\ pc[d] = "claim_download" /\ pc'[d] # pc[d]
           /\ Key(d) \in DOMAIN markers
           /\ Get(markers[Key(d)], "status", "unknown") \in {"completed", "failed"})
              => /\ pc'[d] = "acked"
                 /\ markers' = markers
                 /\ analyzer_calls' = analyzer_calls
                 /\ comments' = comments
                 /\ starts' = starts]_vars

\* C8 witness: an invocation has found that the marker exists and is about
\* to read it; the marker is failed.
C8_Witness ==
    \E d \in Instances :
        /\ pc[d] = "claim_download"
        /\ Key(d) \in DOMAIN markers
        /\ Get(markers[Key(d)], "status", "unknown") = "failed"

\* C9: when check_and_claim_processing reads a marker whose status is
\* processing, it answers True (the invocation goes on to fetch the diff)
\* exactly when retry_count < MAX_RETRY_ATTEMPTS, it answers False (the
\* invocation returns) otherwise, and the marker is unchanged.
C9_ProcessingRetry ==
    [][\A d \in Instances :
          (/\ pc[d] = "claim_download" /\ pc'[d] # pc[d]
           /\ Key(d) \in DOMAIN markers
           /\ Get(markers[Key(d)], "status", "unknown") = "processing")
              => /\ markers' = markers
                 /\ IF Get(markers[Key(d)], "retry_count", 0) < MAX_RETRY_ATTEMPTS
                    THEN pc'[d] = "get_pr_diff"
                    ELSE pc'[d] = "acked"]_vars

\* C9 witness: an invocation is about to read a marker that is processing
\* with retry_count = MAX_RETRY_ATTEMPTS.
C9_Witness ==
    \E d \in Instances :
        /\ pc[d] = "claim_download"
        /\ Key(d) \in DOMAIN markers
        /\ Get(markers[Key(d)], "status", "unknown") = "processing"
        /\ Get(markers[Key(d)], "retry_count", 0) = MAX_RETRY_ATTEMPTS

\* C10 (Scenario C): when the marker is processing with retry_count =
\* MAX_RETRY_ATTEMPTS - 1 and update_marker_for_retry writes after a
\* retryable failure, the marker becomes failed with retry_count =
\* MAX_RETRY_ATTEMPTS and the invocation returns normally.
C10_ScenarioC ==
    [][\A d \in Instances :
          (/\ pc[d] = "retry_upload" /\ pc'[d] # pc[d]
           /\ Key(d) \in DOMAIN markers
           /\ Get(markers[Key(d)], "status", "unknown") = "processing"
           /\ Get(markers[Key(d)], "retry_count", 0) = MAX_RETRY_ATTEMPTS - 1)
              => /\ markers'[Key(d)].status = "failed"
                 /\ markers'[Key(d)].retry_count = MAX_RETRY_ATTEMPTS
                 /\ pc'[d] = "acked"]_vars

\* C10 witness: update_marker_for_retry has read retry_count =
\* MAX_RETRY_ATTEMPTS - 1 from a processing marker and is about to write.
C10_Witness ==
    \E d \in Instances :
        /\ pc[d] = "retry_upload"
        /\ loc[d].retry_count = MAX_RETRY_ATTEMPTS - 1
        /\ Key(d) \in DOMAIN markers
        /\ Get(markers[Key(d)], "status", "unknown") = "processing"
        /\ Get(markers[Key(d)], "retry_count", 0) = MAX_RETRY_ATTEMPTS - 1

\* C11: update_marker_for_retry takes r from the stored marker (0 when the
\* marker is absent or has no retry_count) and writes retry_count = r + 1;
\* when r + 1 < MAX_RETRY_ATTEMPTS the marker written is processing with
\* last_error and the delivery re-raises, otherwise the marker written is
\* failed and the delivery returns normally.
C11_RetryUpdate ==
    /\ [][\A d \in Instances :
            (pc[d] \in {"retry_exists", "retry_download"} /\ pc'[d] = "retry_upload")
                => loc'[d].retry_count =
                       IF Key(d) \in DOMAIN markers
                       THEN Get(markers[Key(d)], "retry_count", 0)
                       ELSE 0]_vars
    /\ [][\A d \in Instances :
            (pc[d] = "retry_upload" /\ pc'[d] # pc[d])
                => /\ Key(d) \in DOMAIN markers'
                   /\ markers'[Key(d)].retry_count = loc[d].retry_count + 1
                   /\ IF loc[d].retry_count + 1 < MAX_RETRY_ATTEMPTS
                      THEN /\ markers'[Key(d)].status = "processing"
                           /\ "last_error" \in DOMAIN markers'[Key(d)]
                           /\ pc'[d] = "raised"
                      ELSE /\ markers'[Key(d)].status = "failed"
                           /\ pc'[d] = "acked"]_vars

\* C11 witness: a delivery has re-raised after update_marker_for_retry
\* raised the stored count from 1 to 2.
C11_Witness ==
    \E d \in Instances :
        /\ pc[d] = "raised"
        /\ MarkerBlob(msg[d].pr_id, "commit_a") \in DOMAIN markers
        /\ Get(markers[MarkerBlob(msg[d].pr_id, "commit_a")], "status", "unknown") = "processing"
        /\ Get(markers[MarkerBlob(msg[d].pr_id, "commit_a")], "retry_count", 0) = 2
        /\ "last_error" \in DOMAIN markers[MarkerBlob(msg[d].pr_id, "commit_a")]

WorkSourceCalls ==
    {"get_pull_request", "get_pr_diff", "post_pr_comment", "get_current_user_id", "reject_pr"}

\* C13: when the only failures are Work Source answers 401, 403 and 404, a
\* delivery whose Work Source call fails, at any step, goes on to write the
\* failed marker; having written it the delivery returns normally
\* (acknowledges); and no delivery is past the claim check while the marker
\* of its WorkKey is failed.
C13_NonRetryableTerminal ==
    /\ [][\A d \in Instances :
            pc[d] \in WorkSourceCalls => pc'[d] # "raised"]_vars
    /\ [][\A d \in Instances :
            (pc[d] = "update_marker_failed" /\ pc'[d] # pc[d])
                => /\ markers'[Key(d)].status = "failed"
                   /\ pc'[d] = "acked"]_vars
    /\ [](\A d \in Instances :
            (pc[d] \in {"get_pr_diff", "call_gemini"} /\ Key(d) \in DOMAIN markers)
                => Get(markers[Key(d)], "status", "unknown") # "failed")

\* Positions at which review_pr_pubsub is calling the Analyzer or the archive.
PipelineCalls == {"call_gemini", "save_to_storage"}

\* C14: when every failure is retryable, a delivery whose call fails, at
\* any step, goes on to update_marker_for_retry; that update raises the
\* stored retry_count of the WorkKey by one and leaves the marker processing
\* below MAX_RETRY_ATTEMPTS and failed at it; and a marker that is failed
\* stays failed.
C14_RetryableCounted ==
    /\ [][\A d \in Instances :
            pc[d] \in WorkSourceCalls \cup PipelineCalls => pc'[d] # "raised"]_vars
    /\ [][\A d \in Instances :
            (pc[d] = "retry_upload" /\ pc'[d] # pc[d] /\ Key(d) \in DOMAIN markers)
                => /\ markers'[Key(d)].retry_count
                          = Get(markers[Key(d)], "retry_count", 0) + 1
                   /\ markers'[Key(d)].status
                          = IF markers'[Key(d)].retry_count >= MAX_RETRY_ATTEMPTS
                            THEN "failed" ELSE "processing"]_vars
    /\ [][\A k \in DOMAIN markers :
            Get(markers[k], "status", "unknown") = "failed"
                => (k \in DOMAIN markers' /\ markers'[k].status = "failed")]_vars

\* C15: when an instance can stop after the claim without running a failure
\* handler and the message is redelivered, process_pr_review is still
\* started at most MAX_RETRY_ATTEMPTS times for a WorkKey within one marker
\* lifetime.
C15_CeilingAcrossCrashes ==
    \A k \in DOMAIN markers : starts[k] <= MAX_RETRY_ATTEMPTS

\* C16: a marker whose status is completed or failed is left as it is by
\* every step of every delivery; it changes only by being deleted, and
\* only a reconciliation run deletes a marker.
C16_TerminalAbsorbing ==
    [][\A k \in DOMAIN markers :
          /\ Get(markers[k], "status", "unknown") \in {"completed", "failed"}
                => (k \in DOMAIN markers' => markers'[k] = markers[k])
          /\ k \notin DOMAIN markers' => deleted' = deleted + 1]_vars

\* C17: a failure of the marker store while the marker is read is never
\* turned into a decision to proceed and never read as retry_count 0:
\* check_and_claim_processing lets the delivery go on from its read only
\* when the stored marker is processing with retry_count below
\* MAX_RETRY_ATTEMPTS, and update_marker_for_retry goes on to its write only
\* with the retry_count that is stored (0 when the marker is absent).
C17_StoreFailurePropagates ==
    /\ [][\A d \in Instances :
            (pc[d] = "claim_download" /\ pc'[d] = "get_pr_diff")
                => /\ Key(d) \in DOMAIN markers
                   /\ Get(markers[Key(d)], "status", "unknown") = "processing"
                   /\ Get(markers[Key(d)], "retry_count", 0) < MAX_RETRY_ATTEMPTS]_vars
    /\ [][\A d \in Instances :
            (pc[d] \in {"retry_exists", "retry_download"} /\ pc'[d] = "retry_upload")
                => loc'[d].retry_count =
                       IF Key(d) \in DOMAIN markers
                       THEN Get(markers[Key(d)], "retry_count", 0)
                       ELSE 0]_vars

\* The malformed envelopes: data that is empty, not base64, not UTF-8 or not
\* JSON, a JSON document that is not an object, an object without pr_id,
\* and an object whose pr_id is not an integer.
Malformed(raw) ==
    \/ raw.enc # "json"
    \/ raw.value.t # "object"
    \/ raw.value.pr_id.t \in {"absent", "null", "list"}
    \/ raw.value.pr_id.t = "str" /\ ~raw.value.pr_id.digits
    \/ raw.value.pr_id.t = "float" /\ raw.value.pr_id.frac # 0

\* C18: an invocation that was given a malformed envelope has returned
\* normally: it has not raised, and it is at no position at which the Work
\* Source, the Analyzer or the marker store is used.
C18_MalformedDropped ==
    \A d \in Instances :
        ("raw" \in DOMAIN msg[d] /\ Malformed(msg[d].raw)) => pc[d] = "acked"

\* Work items on which the blob names are compared: PR ids of which one is
\* a prefix of the other, commit ids that hold a digit and the separator.
NamedPrIds == {1, 11, 12}
NamedShas == {"commit_a", "commit_b", "1-commit_a", "2-commit_a"}

\* The marker stored for work item (p, s): a set of one marker, or empty.
MarkerOf(bucket, p, s) ==
    IF MarkerBlob(p, s) \in DOMAIN bucket THEN {bucket[MarkerBlob(p, s)]} ELSE {}

\* Positions at which an invocation writes the marker.
MarkerWrites ==
    {"claim_create", "update_marker_completed", "update_marker_failed", "retry_upload"}

\* C19: different (pr_id, commit_sha) have different blob names, and the
\* marker of a work item changes only in a marker write of a delivery of
\* that very work item, or in the deletion of that very marker; no step
\* changes the markers of two work items.
C19_Distinctness ==
    /\ [](\A p, q \in NamedPrIds : \A s, t \in NamedShas :
             MarkerBlob(p, s) = MarkerBlob(q, t) => (p = q /\ s = t))
    /\ [][\A p \in PrIds : \A s \in Shas :
            MarkerOf(markers', p, s) # MarkerOf(markers, p, s)
                => /\ \/ \E d \in Instances :
                             /\ msg[d].pr_id = p /\ loc[d].commit_sha = s
                             /\ pc[d] \in MarkerWrites /\ pc'[d] # pc[d]
                      \/ deleted' = deleted + 1 /\ MarkerOf(markers', p, s) = {}
                   /\ \A q \in PrIds : \A t \in Shas :
                         <<q, t>> # <<p, s>>
                             => MarkerOf(markers', q, t) = MarkerOf(markers, q, t)]_vars

\* C19 witness: the marker of one commit is failed while the marker of the
\* other commit of the same PR is completed.
C19_Witness ==
    /\ \E m \in MarkerOf(markers, 1, "commit_a") : Get(m, "status", "unknown") = "failed"
    /\ \E m \in MarkerOf(markers, 1, "commit_b") : Get(m, "status", "unknown") = "completed"

\* Positions inside check_and_claim_processing.
ClaimCheck == {"claim_exists", "claim_download", "claim_create"}

\* C20: with deliveries handled one at a time, the first delivery of a
\* message that a reconciliation run republished while the marker of its
\* work item was failed leaves check_and_claim_processing with a claim it
\* created itself, the marker being processing with retry_count 0; and
\* process_pr_review is started at most MAX_RETRY_ATTEMPTS times for the
\* work item between two deletions of its marker.
C20_FreshCycle ==
    /\ [][\A d \in Instances :
            (/\ "source" \in DOMAIN msg[d] /\ msg[d].was_failed
             /\ pc[d] \in ClaimCheck /\ pc'[d] \notin ClaimCheck)
                => /\ pc'[d] = "get_pr_diff"
                   /\ loc'[d].claimed = "created"
                   /\ markers'[Key(d)].status = "processing"
                   /\ markers'[Key(d)].retry_count = 0]_vars
    /\ [](\A k \in WorkKeys : starts[k] <= MAX_RETRY_ATTEMPTS)

\* A pulled message has a work id when it decodes to an object with pr_id.
HasWorkId(body) == Decodes(body) /\ body.value.pr_id # 0

\* C21: in a non-dry-run reconciliation run, when the republish of a message
\* with pr_id and commit_sha is attempted the marker of its WorkKey is gone
\* (it was deleted if it was present, whatever its status), and a message
\* that reaches the main queue carries the same pr_id and commit_sha, source
\* "dlq-reprocessing" and the id of the dead-letter message.
C21_DeleteBeforeRepublish ==
    [][dlq.pc = "publish" =>
          LET body == dlq.queue[dlq.i]
          IN  /\ ~dlq.dry_run
              /\ body.value.commit_sha # None => DlqKey \notin DOMAIN markers
              /\ topic' # topic =>
                    topic' = topic \cup
                       {[pr_id |-> body.value.pr_id,
                         commit_sha |-> body.value.commit_sha,
                         source |-> "dlq-reprocessing",
                         original_message_id |-> dlq.i]}]_vars

\* C21 witness: a marker was deleted and the message of that WorkKey reached
\* the main queue.
C21_Witness ==
    /\ deleted = 1
    /\ \E m \in topic : m.pr_id = 1 /\ m.commit_sha = "commit_a"

\* C22: in a non-dry-run reconciliation run, every dead-letter message with
\* a work id that is named in the acknowledge request, or that the queue has
\* dropped, was republished before: the main queue received a message with
\* its id.
C22_AckOnlyRepublished ==
    ~dlq.dry_run =>
       \A i \in dlq.ack_request \cup dlq.acked :
          HasWorkId(dlq.queue[i]) => \E m \in topic : m.original_message_id = i

\* C22 witness: a republished message is acknowledged while another message
\* with a work id, whose republish failed, is not.
C22_Witness ==
    /\ ~dlq.dry_run
    /\ \E i \in dlq.acked : HasWorkId(dlq.queue[i])
    /\ \E j \in 1..dlq.messages_pulled :
          /\ HasWorkId(dlq.queue[j])
          /\ j \notin dlq.ack_request
          /\ dlq.pc = "done"

\* C23 (Scenario E): a dry run over N pulled messages that each carry a work
\* id reports N "would republish" entries, deletes no marker, publishes
\* nothing to the main queue and sends no acknowledgement.
C23_ScenarioE ==
    /\ [][dlq.dry_run => markers' = markers /\ topic' = topic]_vars
    /\ [](/\ dlq.dry_run
          /\ dlq.pc = "done"
          /\ dlq.messages_pulled > 0
          /\ \A i \in 1..dlq.messages_pulled : HasWorkId(dlq.queue[i])
          => /\ dlq.response.code = 200
             /\ Len(dlq.response.details) = dlq.messages_pulled
             /\ \A i \in 1..dlq.messages_pulled :
                   /\ dlq.response.details[i].status = "dry_run"
                   /\ dlq.response.details[i].action = "would republish"
                   /\ dlq.response.details[i].pr_id = dlq.queue[i].value.pr_id
             /\ deleted = 0
             /\ topic = {}
             /\ dlq.ack_request = {}
             /\ dlq.acked = {})

\* C23 witness: a dry run over three messages with a work id has ended, and
\* the bucket holds a marker of their WorkKey.
C23_Witness ==
    /\ dlq.dry_run
    /\ dlq.pc = "done"
    /\ dlq.messages_pulled = 3
    /\ \A i \in 1..3 : HasWorkId(dlq.queue[i])
    /\ MarkerBlob(1, "commit_a") \in DOMAIN markers

\* C24: the failure of one message does not abort the batch: a run that
\* entered the loop reports one entry per pulled message, and every message
\* listed as failed is counted, is in no acknowledge request and stays in
\* the dead-letter queue.
C24_FailureIsolated ==
    dlq.pc = "done" /\ dlq.messages_pulled > 0 =>
       /\ dlq.response.code = 200
       /\ Len(dlq.response.details) = dlq.messages_pulled
       /\ \A i \in 1..dlq.messages_pulled :
             dlq.response.details[i].status = "failed" =>
                /\ i \notin dlq.ack_request
                /\ i \notin dlq.acked
       /\ dlq.response.messages_failed >=
             Cardinality({i \in 1..dlq.messages_pulled :
                             dlq.response.details[i].status = "failed"})

\* C24 witness: the first message failed after it was decoded, a later one
\* was republished and acknowledged.
C24_Witness ==
    /\ dlq.pc = "done"
    /\ dlq.messages_pulled >= 2
    /\ dlq.response.details[1].status = "failed"
    /\ dlq.response.details[1].pr_id = 1
    /\ dlq.response.details[2].status = "republished"
    /\ 2 \in dlq.acked

\* C25: in a non-dry-run reconciliation run every pulled message without a
\* recognizable work identity (undecodable, or no pr_id) is named in the
\* acknowledge request, is recorded as skipped and is not republished.
C25_UnidentifiedAcked ==
    dlq.pc = "done" /\ ~dlq.dry_run /\ dlq.messages_pulled > 0 =>
       \A i \in 1..dlq.messages_pulled :
          ~HasWorkId(dlq.queue[i]) =>
             /\ i \in dlq.ack_request
             /\ dlq.response.details[i].status = "skipped"
             /\ ~\E m \in topic : m.original_message_id = i

\* C26: when the credential check fails the run ends at once with an error:
\* no message is pulled, no marker is deleted, nothing is republished and
\* nothing is acknowledged.
C26_CredentialGate ==
    dlq.credentials = "invalid" =>
       /\ dlq.pc \in {"done", "raised"}
       /\ dlq.pc = "done" => dlq.response.code \in {401, 500}
       /\ dlq.messages_pulled = 0
       /\ dlq.details = <<>>
       /\ deleted = 0
       /\ topic = {}
       /\ dlq.ack_request = {}
       /\ dlq.acked = {}

\* C26 witness: the Work Source refused the credentials while the queue held
\* a message whose marker is stored.
C26_Witness ==
    /\ dlq.credentials = "invalid"
    /\ dlq.response.code = 401
    /\ Len(dlq.queue) > 0
    /\ MarkerBlob(1, "commit_a") \in DOMAIN markers

\* C27: no step of a request to review_pr changes the bucket, and a request
\* that has fetched a non-empty diff goes on to the pipeline, whatever
\* marker the bucket holds for the WorkKey.
C27_SyncTakesNoClaim ==
    /\ [][sync' # sync => markers' = markers]_vars
    /\ [][Len(sync'.file_diffs) = 2 /\ Len(sync.file_diffs) = 1 =>
             sync'.pc = "call_gemini"]_vars
    /\ [](sync.pc = "done" /\ Len(sync.file_diffs) = 2 => sync.calls.call_gemini = 1)

\* C27 witness: the request ran the pipeline to its end while the bucket
\* held a completed marker of the PR.
C27_Witness ==
    /\ sync.pc = "done"
    /\ sync.response.code = 200
    /\ sync.calls.call_gemini = 1
    /\ sync.archived = 1
    /\ MarkerBlob(1, "commit_a") \in DOMAIN markers
    /\ Get(markers[MarkerBlob(1, "commit_a")], "status", "unknown") = "completed"

\* The functions of the Work Source client.
WorkSourceSteps ==
    {"get_pull_request", "get_pr_diff", "get_file_content", "post_pr_comment",
     "get_current_user_id", "reject_pr"}

\* C28: a request to review_pr in which a call to the Work Source, the
\* Analyzer or the archive store failed ends with an error response, 502
\* when a Work Source call failed with an HTTP error and 500 otherwise, and
\* no function is called a second time (get_file_content: once per commit).
C28_SyncErrorResponse ==
    /\ sync.pc # "raised" \/ sync.failures = {}
    /\ sync.pc = "done" /\ sync.failures # {} =>
          \E f \in sync.failures :
             sync.response.code =
                IF f.step \in WorkSourceSteps /\ f.kind = "HTTPError" THEN 502 ELSE 500
    /\ \A f \in DOMAIN sync.calls :
          sync.calls[f] <= IF f = "get_file_content" THEN 2 ELSE 1

\* C29: the pipeline calls the Analyzer, classifies, archives, comments and
\* rejects in that order; a failed step is the last step of the run, the
\* run fails, and what earlier steps did stays done.
C29_AbortWithoutUndo ==
    /\ sync.calls.save_to_storage > 0 =>
          sync.calls.call_gemini = 1 /\ sync.max_severity # None
    /\ sync.calls.post_pr_comment > 0 => sync.archived = 1
    /\ sync.calls.get_current_user_id + sync.calls.reject_pr > 0 => sync.posted = 1
    /\ \A f \in sync.failures :
          /\ f.step \in {"call_gemini", "get_max_severity"} =>
                /\ sync.calls.save_to_storage = 0
                /\ sync.calls.post_pr_comment = 0
                /\ sync.calls.reject_pr = 0
          /\ f.step = "save_to_storage" =>
                /\ sync.archived = 0
                /\ sync.calls.post_pr_comment = 0
                /\ sync.calls.reject_pr = 0
          /\ f.step = "post_pr_comment" =>
                /\ sync.archived = 1
                /\ sync.posted = 0
                /\ sync.calls.reject_pr = 0
          /\ f.step \in {"get_current_user_id", "reject_pr"} =>
                /\ sync.archived = 1
                /\ sync.posted = 1
                /\ sync.rejected = 0
          /\ f.step # "get_file_content" =>
                sync.pc = "done" /\ sync.response.code # 200

\* C29 witness: the reject failed after the comment was posted.
C29_Witness ==
    /\ [step |-> "reject_pr", kind |-> "HTTPError"] \in sync.failures
    /\ sync.posted = 1
    /\ sync.response.code = 502

\* C30: a pipeline run that returns has posted one comment and then one
\* reject for blocking (commented, action "rejected"), one comment and no
\* reject for warning (commented, action "commented"), and neither for info
\* (not commented, no action).
C30_DecisionBySeverity ==
    /\ [][sync'.rejected > sync.rejected => sync.posted = 1 /\ sync'.rejected = 1]_vars
    /\ [](sync.pc = "done" /\ sync.response.code = 200 /\ sync.max_severity # None =>
             /\ sync.response.max_severity = sync.max_severity
             /\ sync.max_severity = "blocking" =>
                   /\ sync.posted = 1 /\ sync.rejected = 1
                   /\ sync.response.commented
                   /\ sync.response.action_taken = "rejected"
             /\ sync.max_severity = "warning" =>
                   /\ sync.posted = 1 /\ sync.rejected = 0
                   /\ sync.response.commented
                   /\ sync.response.action_taken = "commented"
             /\ sync.max_severity = "info" =>
                   /\ sync.posted = 0 /\ sync.rejected = 0
                   /\ ~sync.response.commented
                   /\ sync.response.action_taken = None)

\* C30 witness: a run on a blocking review returned after the reject.
C30_Witness ==
    /\ sync.pc = "done"
    /\ sync.response.code = 200
    /\ sync.max_severity = "blocking"
    /\ sync.rejected = 1

\* C31: get_max_severity returns a value for every text: blocking when the
\* text contains the blocking token, whatever else it contains, warning
\* when it contains the warning token and not the blocking token, and info
\* otherwise, the empty text included.
C31_SeverityTotal ==
    /\ [][sync.pc = "get_max_severity" =>
             /\ sync'.pc = "classified"
             /\ sync'.max_severity \in {"blocking", "warning", "info"}]_vars
    /\ [](sync.pc = "classified" =>
             LET b == \E i \in 1..(Len(sync.review) - 1) :
                         sync.review[i] = "S" /\ sync.review[i + 1] = "b"
                 w == \E i \in 1..(Len(sync.review) - 1) :
                         sync.review[i] = "S" /\ sync.review[i + 1] = "w"
             IN  /\ b => sync.max_severity = "blocking"
                 /\ w /\ ~b => sync.max_severity = "warning"
                 /\ ~w /\ ~b => sync.max_severity = "info"
                 /\ sync.review = <<>> => sync.max_severity = "info")

\* C31 witness: a text with the warning token before the blocking token is
\* classified blocking.
C31_Witness ==
    /\ sync.pc = "classified"
    /\ sync.review = <<"S", "w", "S", "b">>
    /\ sync.max_severity = "blocking"

\* int(pr_id) returns: pr_id is a number or a string of digits.
Converts(p) == p.t \in {"int", "float"} \/ (p.t = "str" /\ p.digits)

\* The request that C32 says is published.
Publishable(request) ==
    /\ request.config_ok
    /\ request.key = "right"
    /\ request.body.t = "object"
    /\ Converts(request.body.pr_id)
    /\ request.body.commit_sha.t = "str"
    /\ Len(request.body.commit_sha.v) >= 7

\* C32: receive_webhook always answers; it answers 202 with exactly one
\* message {pr_id, commit_sha, source "azure-devops-pipeline"} on the queue
\* when the configuration is complete, the key matches, the body is a
\* non-empty JSON object, pr_id converts to an integer, commit_sha is a
\* string of at least 7 characters and the publish succeeds; a publish
\* failure answers 500; every other request is answered 500, 401 or 400;
\* nothing is on the queue unless the answer is 202.
C32_WebhookPublishesIff ==
    /\ hook.pc # "raised"
    /\ hook.pc = "publish" => Publishable(hook.request) /\ topic = {}
    /\ hook.pc = "done" =>
          /\ hook.response.code \in {202, 500, 401, 400}
          /\ Publishable(hook.request) => hook.response.code \in {202, 500}
          /\ ~Publishable(hook.request) => hook.response.code \in {500, 401, 400}
          /\ hook.response.code # 202 => topic = {}
          /\ hook.response.code = 202 =>
                /\ Publishable(hook.request)
                /\ topic = {[pr_id |-> IF hook.request.body.pr_id.t = "float"
                                       THEN hook.request.body.pr_id.whole
                                       ELSE hook.request.body.pr_id.v,
                             commit_sha |-> hook.request.body.commit_sha.v,
                             source |-> "azure-devops-pipeline"]}

\* C33: the claim check takes no ownership on a retry: a delivery that reads
\* a marker which is processing with 0 < retry_count < MAX_RETRY_ATTEMPTS
\* gets True and leaves the marker as it is, so a second delivery of the
\* WorkKey gets True from the same marker while the first is inside the
\* pipeline.
C33_ConcurrentRetries ==
    [][\A d \in Instances :
          (/\ pc[d] = "claim_download" /\ pc'[d] # pc[d]
           /\ Key(d) \in DOMAIN markers
           /\ Get(markers[Key(d)], "status", "unknown") = "processing"
           /\ Get(markers[Key(d)], "retry_count", 0) \in 1..(MAX_RETRY_ATTEMPTS - 1))
              => /\ pc'[d] = "get_pr_diff"
                 /\ loc'[d].claimed = "retry"
                 /\ markers' = markers
                 /\ \A e \in Instances : e # d => pc'[e] = pc[e]]_vars

\* C33 witness: after a first attempt failed, two deliveries of one WorkKey
\* that both got True on the retry branch have both posted the comment and
\* are both still running.
C33_Witness ==
    \E d, e \in Instances :
        /\ d # e
        /\ Key(d) = Key(e)
        /\ loc[d].claimed = "retry" /\ loc[e].claimed = "retry"
        /\ pc[d] = "update_marker_completed" /\ pc[e] = "update_marker_completed"
        /\ loc[d].commented /\ loc[e].commented
        /\ comments[Key(d)] = 2
        /\ Get(markers[Key(d)], "status", "unknown") = "processing"
        /\ Get(markers[Key(d)], "retry_count", 0) \in 1..(MAX_RETRY_ATTEMPTS - 1)

\* C34: when the only failures are Work Source answers 401, 403 and 404, the
\* delivery that writes the failed marker raises, and from then on no
\* delivery of the message is acknowledged: while the marker of the WorkKey
\* is failed every delivery ends by raising.
C34_NonRetryableDeadLettered ==
    /\ [][\A d \in Instances :
            (pc[d] = "update_marker_failed" /\ pc'[d] # pc[d]) => pc'[d] = "raised"]_vars
    /\ [][\A d \in Instances :
            (/\ pc'[d] = "acked" /\ pc[d] # "acked")
               => \A k \in DOMAIN markers :
                     Get(markers[k], "status", "unknown") # "failed"]_vars

\* C35: a delivery that has read a marker whose content is not valid JSON
\* goes on to the conditional create, creates a new marker (processing,
\* retry_count 0) and gets True: it goes on to fetch the diff.
C35_CorruptMarkerReclaimed ==
    [][\A d \in Instances :
          (/\ pc[d] = "claim_create" /\ pc'[d] # pc[d]
           /\ Key(d) \in DOMAIN markers
           /\ "raw" \in DOMAIN markers[Key(d)])
              => /\ pc'[d] = "get_pr_diff"
                 /\ markers'[Key(d)] =
                       [pr_id |-> msg[d].pr_id, commit_sha |-> loc[d].commit_sha,
                        status |-> "processing", retry_count |-> 0]]_vars

\* C36: without crash, with a reliable store and a transport that delivers
\* again every message whose delivery raised, a WorkKey whose marker was
\* created eventually has a marker with status completed or failed, and
\* once it has, no delivery of it ends by raising.
C36_EventualResolution ==
    /\ \A k \in WorkKeys :
          (k \in DOMAIN markers) ~>
             (k \in DOMAIN markers
                /\ Get(markers[k], "status", "unknown") \in {"completed", "failed"})
    /\ [][\A d \in Instances :
            (/\ pc'[d] = "raised" /\ pc[d] # "raised"
             /\ msg[d].commit_sha # None
             /\ MarkerBlob(msg[d].pr_id, msg[d].commit_sha) \in DOMAIN markers)
               => Get(markers[MarkerBlob(msg[d].pr_id, msg[d].commit_sha)],
                      "status", "unknown") \notin {"completed", "failed"}]_vars

\* C37: starting from an empty bucket, no stored marker is processing with
\* retry_count >= MAX_RETRY_ATTEMPTS, and no delivery is turned away by the
\* claim check on a marker that is processing.
C37_NoProcessingAtCeiling ==
    /\ [](\A k \in DOMAIN markers :
             Get(markers[k], "status", "unknown") = "processing"
                => Get(markers[k], "retry_count", 0) < MAX_RETRY_ATTEMPTS)
    /\ [][\A d \in Instances :
            (/\ pc[d] = "claim_download" /\ pc'[d] = "acked"
             /\ Key(d) \in DOMAIN markers)
               => Get(markers[Key(d)], "status", "unknown") # "processing"]_vars

\* C37 witness: update_marker_for_retry has written the count
\* MAX_RETRY_ATTEMPTS, with status failed, and a later delivery is reading
\* that marker.
C37_Witness ==
    \E d \in Instances :
        /\ pc[d] = "claim_download"
        /\ Key(d) \in DOMAIN markers
        /\ markers[Key(d)].status = "failed"
        /\ Get(markers[Key(d)], "retry_count", 0) = MAX_RETRY_ATTEMPTS

\* C38: a delivery that has claimed its WorkKey and gets an empty list of
\* changed files goes from get_pr_diff to update_marker_completed with
\* severity info and comment flag false, and from there overwrites the marker
\* with completed/info/not commented and returns normally; neither step calls
\* the Analyzer, starts the pipeline or posts a comment.  (Markers the
\* operator has not deleted: a deletion resets the pipeline count.)
C38_NoChangesCompleted ==
    /\ [][\A d \in Instances :
            (/\ pc[d] = "get_pr_diff" /\ pc'[d] # pc[d]
             /\ starts' = starts
             /\ pc'[d] \notin {"raised", "retry_exists", "update_marker_failed"})
                => /\ pc'[d] = "update_marker_completed"
                   /\ loc'[d].max_severity = "info"
                   /\ loc'[d].commented = FALSE
                   /\ UNCHANGED <<markers, analyzer_calls, comments>>]_vars
    /\ [][\A d \in Instances :
            (/\ pc[d] = "update_marker_completed" /\ pc'[d] # pc[d]
             /\ deleted = 0 /\ starts[Key(d)] = 0)
                => /\ loc[d].claimed # "no"
                   /\ pc'[d] = "acked"
                   /\ markers'[Key(d)] =
                         [pr_id |-> msg[d].pr_id, commit_sha |-> loc[d].commit_sha,
                          status |-> "completed", max_severity |-> "info",
                          commented |-> FALSE]
                   /\ analyzer_calls[Key(d)] = 0
                   /\ comments[Key(d)] = 0
                   /\ UNCHANGED <<analyzer_calls, comments, starts>>]_vars

\* C38 witness: a delivery has returned normally, its marker is completed
\* with severity info and no comment, and the pipeline never started for
\* that WorkKey (no marker was deleted).
C38_Witness ==
    \E k \in DOMAIN markers :
        /\ \E d \in Instances : pc[d] = "acked"
        /\ deleted = 0
        /\ markers[k].status = "completed"
        /\ markers[k].max_severity = "info"
        /\ markers[k].commented = FALSE
        /\ starts[k] = 0
        /\ analyzer_calls[k] = 0
        /\ comments[k] = 0

\* C39: the response of a reconciliation run that pulled at least one
\* message reports messages_pulled = messages_republished + messages_failed
\* and a details list with one entry per pulled message, with or without
\* dry_run; messages_republished counts the republished and dry_run entries,
\* messages_failed the failed and skipped ones.
C39_CountersAddUp ==
    dlq.pc = "done" /\ dlq.messages_pulled > 0 =>
       LET resp == dlq.response
           Entries(S) == Cardinality({i \in 1..Len(resp.details) :
                                         resp.details[i].status \in S})
       IN  /\ resp.messages_pulled = dlq.messages_pulled
           /\ resp.messages_pulled = resp.messages_republished + resp.messages_failed
           /\ Len(resp.details) = resp.messages_pulled
           /\ resp.messages_republished = Entries({"republished", "dry_run"})
           /\ resp.messages_failed = Entries({"failed", "skipped"})

\* C39 witness: a run without dry_run has ended in which one pulled message
\* was republished, one failed and one was skipped.
C39_Witness ==
    /\ dlq.pc = "done"
    /\ ~dlq.dry_run
    /\ dlq.messages_pulled = 3
    /\ dlq.response.messages_pulled = 3
    /\ dlq.response.messages_republished = 1
    /\ dlq.response.messages_failed = 2
    /\ {dlq.response.details[i].status : i \in 1..3} = {"republished", "failed", "skipped"}

====
